---- MODULE Spec2Model ----
(***************************************************************************)
(* A model of the nested cross-validation core of ThePetaleProject:        *)
(*   - CustomDataset.update_masks and the statistics it recomputes         *)
(*     (src/src/data/processing/datasets.py),                              *)
(*   - Sampler.create_train_and_test_datasets and split_train_test         *)
(*     (src/Datasets/Sampling.py),                                         *)
(*   - Evaluator.nested_cross_valid and NNEvaluator.nested_cross_valid     *)
(*     (src/Evaluation/Evaluator.py),                                      *)
(*   - NNTrainer.fit (src/Training/Trainer.py) and TorchCustomModel.fit    *)
(*     (src/src/models/custom_torch_base.py),                              *)
(*   - Trainer.inner_random_subsampling and its ray subprocess             *)
(*     (src/Training/Trainer.py),                                          *)
(*   - stratified_sample and split_train_test on one frame                 *)
(*     (src/Datasets/Sampling.py),                                         *)
(*   - CustomDataset.__init__ and its checks of the columns                *)
(*     (src/src/data/processing/datasets.py),                              *)
(*   - predict of GATRegressor, HANRegressor and of the trainers           *)
(*     (src/src/models/abstract_models, src/Training/Trainer.py),          *)
(*   - the Recordings directory of an evaluator                            *)
(*     (src/Evaluation/Evaluator.py),                                      *)
(*   - Trainer.define_subprocess, call after call                          *)
(*     (src/Training/Trainer.py),                                          *)
(*   - the batches of NNTrainer.fit, update_trainer and extract_data       *)
(*     (src/Training/Trainer.py, src/src/models/custom_torch_base.py),     *)
(*   - FeatureSelector (src/src/data/processing/feature_selection.py).     *)
(* Each component has its own specification (SpecDataset, SpecSampler,     *)
(* SpecEval, SpecFit, SpecIrs, SpecSample, SpecConstruct, SpecPredict,     *)
(* SpecRecordings, SpecSubprocess, SpecTrainer, SpecSelector); the         *)
(* variables of the other components stay at their idle values.            *)
(***************************************************************************)
EXTENDS Integers, Sequences, FiniteSets, TLC

VARIABLES
    \* ---- CustomDataset (datasets.py)
    original_data,   \* self._original_data: sequence of rows [cont, cat]
    encodings,       \* self._encodings: category -> ordinal code
    train_mask,      \* self._train_mask
    valid_mask,      \* self._valid_mask (None or a list)
    test_mask,       \* self._test_mask
    x_cont,          \* derived continuous features, one per row
    x_cat,           \* derived categorical codes, one per row
    used_stats,      \* the (mu, std, modes) last handed to the setters
    ds_raised,       \* TRUE iff the last update_masks call raised
    ids,             \* self._ids: the participant ids, one per row
    ds_y,            \* self._y: the targets, one per row
    ds_n,            \* self._n: the number of rows
    \* ---- Sampler.create_train_and_test_datasets (Sampling.py)
    learning_set,    \* self.learning_set: row label -> target value
    sm_k,            \* parameter k: number of outer loops
    sm_l,            \* parameter l: number of inner loops
    sm_test_size,    \* parameter test_size, a fraction <<n, d>>
    sm_pc,           \* "outer", "inner", "returned", "raised"
    sm_i,            \* outer loop counter i
    sm_j,            \* inner loop counter j
    outer_dict,      \* the local outer_dict of the current outer loop
    all_datasets,    \* the dictionary being built and returned
    \* ---- Evaluator.nested_cross_valid (Evaluator.py)
    evaluator,       \* the class of self: "NNEvaluator" or "RFEvaluator"
    early_stopping_activated,  \* NNEvaluator.early_stopping_activated
    model_generator, \* self.model_generator: the keywords its call takes
    ev_k,            \* self.k: number of outer folds
    evaluation_metrics,        \* number of entries of self.evaluation_metrics
    ev_pc,           \* position in nested_cross_valid
    ev_fold,         \* the loop variable k of the outer loop
    ev_metric,       \* number of metrics already scored in this fold
    ev_log,          \* per fold: the calls made so far, in order
    checkpoints,     \* TRUE iff the directory "checkpoints" exists
    model,           \* the local variable model: the instance it names,
                     \* 0 before the first create_model
    ev_instances,    \* number of model instances constructed so far
    ev_fitted,       \* pairs <<instance, fold>>: trainer.fit ran on instance
    ev_used,         \* pairs <<instance, fold>>: instance was recorded and
                     \* predicted with
    \* ---- NNTrainer.fit (Trainer.py), TorchCustomModel.fit
    \*      (custom_torch_base.py)
    fit_class,       \* the class whose fit runs: "NNTrainer", "TorchCustomModel"
    fit_es,          \* NNTrainer: self.early_stopping_activated;
                     \* TorchCustomModel: len(dataset.valid_mask) != 0
    fit_x_cat,       \* NNTrainer: val_set.X_cat is not None
    max_epochs,      \* self.epochs / max_epochs
    patience,        \* patience
    fit_pc,          \* position in fit
    epoch,           \* the loop variable epoch
    weights,         \* the model's parameters: the number of the training
                     \* epoch that produced them (0: as constructed)
    early_stopper,   \* the early stopper, None when fit created none
    checkpoint_file, \* TRUE iff the early stopper's checkpoint file exists
    \* ---- Trainer.inner_random_subsampling (Trainer.py)
    subprocess_defined,  \* self.subprocess_defined
    irs_l,           \* the argument l
    irs_workers,     \* number of worker processes that execute the tasks
    irs_pc,          \* position in inner_random_subsampling
    runs,            \* per inner split i: how often subprocess(i) has run
    worker_model,    \* per worker: the inner splits the model of the worker's
                     \* copy of the trainer has been fitted on
    fit_start,       \* per inner split: what the model had been fitted on
                     \* when the split's fit began (None: not begun)
    scores,          \* per inner split: its score (None: not yet there)
    irs_result,      \* the value returned
    \* ---- split_train_test / stratified_sample on one frame (Sampling.py)
    ss_target,       \* the target column of df: row label -> value
    ss_has_target,   \* target_col in df.columns
    ss_n,            \* test_size / n, a fraction <<a, b>>
    random_state,    \* the argument random_state: None or Some(seed)
    generator,       \* the draws of RandomState(seed): generator[m] is the
                     \* permutation of m positions it gives first
    ss_calls,        \* number of calls the caller makes with these arguments
    ss_out,          \* the outcomes of the calls made so far, in order
    \* ---- CustomDataset.__init__ and the columns of its frame (datasets.py)
    ct_class,        \* the class constructed: PetaleNNDataset, PetaleRFDataset
    ct_columns,      \* df.columns: the names of the columns of the frame
    ct_cont_cols,    \* the argument cont_cols (None or a list of names)
    ct_cat_cols,     \* the argument cat_cols (None or a list of names)
    ct_pc,           \* "new", "constructed", "raised"
    ct_error,        \* the exception __init__ raised, "none" otherwise
    ct_steps,        \* what __init__ has done to the object, in order
    ct_later,        \* the outcomes of the calls on the constructed object
    \* ---- GATRegressor.predict, HANRegressor.predict, RFTrainer.predict
    pd_class,        \* the class whose predict is called
    training,        \* Module.training of the model: TRUE in train mode
    pd_weights,      \* the model's parameters: number of training steps
    pd_train_mask,   \* dataset.train_mask
    pd_test_mask,    \* dataset.test_mask
    pd_calls,        \* number of predict calls made so far
    pd_mask,         \* the argument mask of the last predict call
    pd_out,          \* the indices the last call returned predictions for
    \* ---- Evaluator.__init__ and the directory of its recordings (Evaluator.py)
    rc_dirs,         \* the evaluation names that have a directory under Recordings
    rc_evaluators,   \* the evaluation names of the evaluators constructed, in order
    rc_log,          \* the constructions and the runs so far, in order
    \* ---- Trainer.define_subprocess and inner_random_subsampling, call after call
    sp_defined,      \* self.subprocess_defined
    sp_subprocess,   \* self.subprocess: None, or the datasets its closure holds
    sp_log,          \* the calls made on the trainer so far, in order
    \* ---- NNTrainer / RFTrainer handling of batches and of extract_data
    tr_class,        \* class of the object: a trainer, or a TorchCustomModel
    tr_model,        \* self.model of an NNTrainer: "None" or "Module"
    tr_trial,        \* TRUE iff self.trial is not None
    tr_metric,       \* TRUE iff self.metric is not None
    tr_batch_size,   \* self.batch_size of an NNTrainer (0: no such attribute)
    tr_batches,      \* row counts of the batches of one epoch of the last fit
    tr_ret,          \* outcome of the last extract_data call
    tr_log,          \* the calls made on the object so far, in order
    \* ---- FeatureSelector (feature_selection.py)
    fs_pc,           \* "new", "constructed", "raised", "table", "called"
    fs_thresh,       \* self.__importance_thresh, in units of 1 / ImpUnits
    fs_dataset,      \* the dataset of the last call: its columns and importances
    fs_table,        \* fi_table of the last call, row after row
    fs_ret           \* (cont_cols, cat_cols) returned by the last __call__

ds_vars == <<original_data, encodings, train_mask, valid_mask, test_mask,
             x_cont, x_cat, used_stats, ds_raised, ids, ds_y, ds_n>>

sm_vars == <<learning_set, sm_k, sm_l, sm_test_size, sm_pc, sm_i, sm_j,
             outer_dict, all_datasets>>

ev_vars == <<evaluator, early_stopping_activated, model_generator, ev_k,
             evaluation_metrics,
             ev_pc, ev_fold, ev_metric, ev_log, checkpoints,
             model, ev_instances, ev_fitted, ev_used>>

fit_vars == <<fit_class, fit_es, fit_x_cat, max_epochs, patience, fit_pc,
              epoch, weights, early_stopper, checkpoint_file>>

irs_vars == <<subprocess_defined, irs_l, irs_workers, irs_pc, runs,
              worker_model, fit_start, scores, irs_result>>

ss_vars == <<ss_target, ss_has_target, ss_n, random_state, generator,
             ss_calls, ss_out>>

ct_vars == <<ct_class, ct_columns, ct_cont_cols, ct_cat_cols, ct_pc, ct_error, ct_steps,
             ct_later>>

pd_vars == <<pd_class, training, pd_weights, pd_train_mask, pd_test_mask,
             pd_calls, pd_mask, pd_out>>

rc_vars == <<rc_dirs, rc_evaluators, rc_log>>

sp_vars == <<sp_defined, sp_subprocess, sp_log>>

tr_vars == <<tr_class, tr_model, tr_trial, tr_metric, tr_batch_size, tr_batches, tr_ret, tr_log>>

fs_vars == <<fs_pc, fs_thresh, fs_dataset, fs_table, fs_ret>>

vars == <<ds_vars, sm_vars, ev_vars, fit_vars, irs_vars, ss_vars, ct_vars,
          pd_vars, rc_vars, sp_vars, tr_vars, fs_vars>>

\* the variables of the other components, for each component
ds_others == <<sm_vars, ev_vars, fit_vars, irs_vars, ss_vars, ct_vars,
               pd_vars, rc_vars, sp_vars, tr_vars, fs_vars>>

sm_others == <<ds_vars, ev_vars, fit_vars, irs_vars, ss_vars, ct_vars,
               pd_vars, rc_vars, sp_vars, tr_vars, fs_vars>>

ev_others == <<ds_vars, sm_vars, fit_vars, irs_vars, ss_vars, ct_vars,
               pd_vars, rc_vars, sp_vars, tr_vars, fs_vars>>

fit_others == <<ds_vars, sm_vars, ev_vars, irs_vars, ss_vars, ct_vars,
                pd_vars, rc_vars, sp_vars, tr_vars, fs_vars>>

irs_others == <<ds_vars, sm_vars, ev_vars, fit_vars, ss_vars, ct_vars,
                pd_vars, rc_vars, sp_vars, tr_vars, fs_vars>>

ss_others == <<ds_vars, sm_vars, ev_vars, fit_vars, irs_vars, ct_vars,
               pd_vars, rc_vars, sp_vars, tr_vars, fs_vars>>

ct_others == <<ds_vars, sm_vars, ev_vars, fit_vars, irs_vars, ss_vars,
               pd_vars, rc_vars, sp_vars, tr_vars, fs_vars>>

pd_others == <<ds_vars, sm_vars, ev_vars, fit_vars, irs_vars, ss_vars,
               ct_vars, rc_vars, sp_vars, tr_vars, fs_vars>>

rc_others == <<ds_vars, sm_vars, ev_vars, fit_vars, irs_vars, ss_vars,
               ct_vars, pd_vars, sp_vars, tr_vars, fs_vars>>

sp_others == <<ds_vars, sm_vars, ev_vars, fit_vars, irs_vars, ss_vars,
               ct_vars, pd_vars, rc_vars, tr_vars, fs_vars>>

tr_others == <<ds_vars, sm_vars, ev_vars, fit_vars, irs_vars, ss_vars,
               ct_vars, pd_vars, rc_vars, sp_vars, fs_vars>>

fs_others == <<ds_vars, sm_vars, ev_vars, fit_vars, irs_vars, ss_vars,
               ct_vars, pd_vars, rc_vars, sp_vars, tr_vars>>

(***************************************************************************)
(* Bounds                                                                  *)
(***************************************************************************)
\* number of rows of the dataframe wrapped by the CustomDataset
NRows == 3

\* number of rows of the Sampler's learning set
NSampRows == 4

\* largest number of outer loops k and of inner loops l of the Sampler
MaxK == 2

MaxL == 2

\* largest number of calls of split_train_test in one call of the Sampler:
\* k * (1 + l)
MaxSplits == 6

\* largest number of outer folds of an Evaluator and of evaluation metrics
MaxFolds == 3

MaxMetrics == 2

\* largest number of epochs, largest patience and largest validation loss
MaxEpochs == 4

MaxPatience == 2

MaxLoss == 3

\* largest number of inner splits l, of worker processes and largest score
\* of inner_random_subsampling
MaxInner == 3

MaxWorkers == 2

MaxScore == 2

\* largest target value of the small frames handed to stratified_sample,
\* and number of rows of the large frames (targets of many values)
MaxTarget == 3

NLargeRows == 15

\* number of calls made on a constructed CustomDataset
MaxLater == 2

\* number of rows of the dataset handed to predict, of predict calls and
\* of training steps before and between them
NPredRows == 3

MaxPredicts == 2

MaxTrainSteps == 1

\* number of constructions and runs of evaluators
MaxEvents == 4

\* number of datasets dictionaries handed to define_subprocess, and of
\* calls made on one trainer
MaxDatasets == 2

MaxCalls == 4

\* sizes of the train sets and of the batches, and number of calls made on
\* one trainer
MaxTrain == 3

MaxBatch == 3

MaxTrainerCalls == 3

\* number of features of a dataset, and number of units an importance of
\* one is cut into
NFeat == 3

ImpUnits == 4

(***************************************************************************)
(* Exact arithmetic.  A float is carried as a reduced fraction <<n, d>>    *)
(* with d > 0; NaN is <<0, 0>>.                                            *)
(***************************************************************************)
NaN == <<0, 0>>

IsNaN(r) == r[2] = 0

Abs(i) == IF i < 0 THEN -i ELSE i

RECURSIVE GCD(_, _)
GCD(a, b) == IF b = 0 THEN a ELSE GCD(b, a % b)

\* the fraction n/d in lowest terms, NaN when d = 0 (0/0 of an empty mean)
Rat(n, d) ==
    IF d = 0 THEN NaN
    ELSE LET g == GCD(Abs(n), Abs(d))
             s == IF d < 0 THEN -1 ELSE 1
         IN  <<(s * n) \div g, (s * d) \div g>>

RatSub(a, b) ==
    IF IsNaN(a) \/ IsNaN(b) THEN NaN
    ELSE Rat(a[1] * b[2] - b[1] * a[2], a[2] * b[2])

RECURSIVE SumSeq(_)
SumSeq(s) == IF s = <<>> THEN 0 ELSE Head(s) + SumSeq(Tail(s))

\* the sequence s restricted to the elements satisfying Test, order kept
RECURSIVE SelectIdx(_, _)
SelectIdx(s, keep) ==
    IF s = <<>> THEN <<>>
    ELSE IF Head(s) \in keep THEN <<Head(s)>> \o SelectIdx(Tail(s), keep)
         ELSE SelectIdx(Tail(s), keep)

(***************************************************************************)
(* CustomDataset                                                           *)
(***************************************************************************)
\* Optional[List[int]] of update_masks' valid_mask
None == [some |-> FALSE, val |-> <<>>]
Some(s) == [some |-> TRUE, val |-> s]

\* The category order pandas gives the 'category' dtype (sorted values).
cat_categories == <<"a", "b">>

\* The rows a frame is drawn from.  The continuous and the categorical
\* column never meet in a computation, so every continuous column over
\* {NaN, 0, 2} and every categorical column over {NaN, a, b} is covered.
RowInputs ==
    { [cont |-> NaN,      cat |-> "b"],
      [cont |-> <<0, 1>>, cat |-> "a"],
      [cont |-> <<2, 1>>, cat |-> "NaN"] }

\* df.iloc[mask]: positions 0..n-1, a negative position counts from the end,
\* anything else is an IndexError.
IlocInBounds(df, mask) ==
    \A i \in 1..Len(mask) : mask[i] >= -Len(df) /\ mask[i] < Len(df)

Iloc(df, mask) ==
    [i \in 1..Len(mask) |->
        df[(IF mask[i] < 0 THEN mask[i] + Len(df) ELSE mask[i]) + 1]]

\* the non-missing values of the continuous column of a frame, as integers
ContValues(df) ==
    LET present == {i \in 1..Len(df) : ~IsNaN(df[i].cont)}
        idx == SelectIdx([i \in 1..Len(df) |-> i], present)
    IN  [i \in 1..Len(idx) |-> df[idx[i]].cont[1]]

\* df[cont_cols].mean(): missing values are skipped, NaN when none is left
Mean(df) ==
    LET v == ContValues(df) IN Rat(SumSeq(v), Len(v))

\* df[cont_cols].std(): the sample standard deviation (ddof = 1), carried as
\* its square; NaN when fewer than two values are present
Std(df) ==
    LET v == ContValues(df)
        n == Len(v)
        s == SumSeq(v)
        q == SumSeq([i \in 1..n |-> v[i] * v[i]])
    IN  IF n < 2 THEN NaN ELSE Rat(n * q - s * s, n * (n - 1))

\* get_mu_and_std of _define_numerical_stats_getter
get_mu_and_std(df) == [mu |-> Mean(df), std |-> Std(df)]

CatCount(df, c) == Cardinality({i \in 1..Len(df) : df[i].cat = c})

\* The categories of the frame that reach the highest count, in category
\* order: df[cat_cols].mode() (missing values dropped).
ModeRows(df) ==
    LET present == {i \in 1..Len(cat_categories) :
                       /\ CatCount(df, cat_categories[i]) > 0
                       /\ \A j \in 1..Len(cat_categories) :
                            CatCount(df, cat_categories[j])
                              <= CatCount(df, cat_categories[i])}
        idx == SelectIdx([i \in 1..Len(cat_categories) |-> i], present)
    IN  [i \in 1..Len(idx) |-> cat_categories[idx[i]]]

\* get_modes of _define_categorical_stats_getter: mode().iloc[0]; the
\* IndexError of .iloc[0] on an empty mode frame is ModeRaises.
ModeRaises(df) == ModeRows(df) = <<>>

get_modes(df) == ModeRows(df)[1]

\* encodings = {v: k for k, v in enumerate(categories)}: the categories
\* present in the original frame, numbered in category order from 0.
ExtractEncodings(df) ==
    LET present == {i \in 1..Len(cat_categories) :
                        CatCount(df, cat_categories[i]) > 0}
        idx == SelectIdx([i \in 1..Len(cat_categories) |-> i], present)
    IN  [c \in {cat_categories[idx[i]] : i \in 1..Len(idx)} |->
            (CHOOSE i \in 1..Len(idx) : cat_categories[idx[i]] = c) - 1]

\* Statistics taken over every row of the frame, whatever the train mask.
current_train_stats_all_rows(df, mask) ==
    IF ~IlocInBounds(df, mask) THEN [raised |-> TRUE]
    ELSE IF ModeRaises(Iloc(df, mask)) THEN [raised |-> TRUE]
    ELSE [raised |-> FALSE,
          mu     |-> get_mu_and_std(df).mu,
          std    |-> get_mu_and_std(df).std,
          modes  |-> get_modes(df)]

\* current_train_stats: the statistics of original_data.iloc[train_mask].
\* raised: iloc's IndexError or the mode's IndexError.
current_train_stats(df, mask) ==
    IF ~IlocInBounds(df, mask) THEN [raised |-> TRUE]
    ELSE LET train_data == Iloc(df, mask)
         IN  IF ModeRaises(train_data) THEN [raised |-> TRUE]
             ELSE [raised |-> FALSE,
                   mu     |-> get_mu_and_std(train_data).mu,
                   std    |-> get_mu_and_std(train_data).std,
                   modes  |-> get_modes(train_data)]

\* ContinuousTransform.fill_missing: a missing value becomes the mean
FillMissingCont(v, mu) == IF IsNaN(v) THEN mu ELSE v

\* ContinuousTransform.normalize: (v - mu) / std, the quotient carried as
\* the centred value and the square of the scale; a zero std scales by 1.
Normalize(v, mu, std) ==
    LET c == RatSub(v, mu)
    IN  IF IsNaN(c) \/ IsNaN(std) THEN [num |-> NaN, std2 |-> NaN]
        ELSE IF c[1] = 0 \/ std[1] = 0 THEN [num |-> c, std2 |-> <<1, 1>>]
        ELSE [num |-> c, std2 |-> std]

\* A preprocessing that normalizes without filling the missing values.
preprocess_continuous_unfilled(v, mu, std) == Normalize(v, mu, std)

\* preprocess_continuous(df, mean, std)
preprocess_continuous(v, mu, std) == Normalize(FillMissingCont(v, mu), mu, std)

\* preprocess_categoricals(df, mode, encodings): fill with the mode, then
\* the ordinal code of the construction-time encoding
preprocess_categoricals(c, mode, enc) == enc[IF c = "NaN" THEN mode ELSE c]

\* A setter that normalizes the features already derived instead of a copy
\* of the original data.
numerical_setter_inplace(mu, std) ==
    [i \in 1..Len(original_data) |->
        IF IsNaN(x_cont[i].num) THEN preprocess_continuous(NaN, mu, std)
        ELSE preprocess_continuous(x_cont[i].num, mu, std)]

\* PetaleNNDataset._numerical_setter / PetaleRFDataset._numerical_setter
numerical_setter(mu, std) ==
    [i \in 1..Len(original_data) |->
        preprocess_continuous(original_data[i].cont, mu, std)]

\* A setter that keeps the table of the categories it was given the mode of.
categorical_setter_refit(modes) == [c \in {modes} |-> 0]

\* _categorical_setter: self._encodings after the call.  The table that
\* preprocess_categoricals returns is bound to _ and dropped.
categorical_setter_encodings(modes) == encodings

\* PetaleNNDataset._categorical_setter / PetaleRFDataset._categorical_setter
categorical_setter(modes) ==
    [i \in 1..Len(original_data) |->
        preprocess_categoricals(original_data[i].cat, modes, encodings)]

\* the frames a CustomDataset can be constructed from: __init__ ends with
\* update_masks(list(range(n)), [], []), which must not raise
AllRows(df) == [i \in 1..Len(df) |-> i - 1]

Frames == {df \in [1..NRows -> RowInputs] :
              ~current_train_stats(df, AllRows(df)).raised}

\* The train masks callers pass: the strictly increasing lists of positions
\* in range and two lists that hold the position one past the end.
RECURSIVE SortedSeq(_)
SortedSeq(S) ==
    IF S = {} THEN <<>>
    ELSE LET m == CHOOSE x \in S : \A y \in S : x <= y
         IN  <<m>> \o SortedSeq(S \ {m})

TrainMaskInputs ==
    {SortedSeq(S) : S \in SUBSET (0..(NRows - 1))} \cup {<<NRows>>, <<0, NRows>>}

\* The (test_mask, valid_mask) pairs callers pass: no test row, the first
\* row, the last row counted from the end, one past the end; valid_mask
\* left at its default None or given as the empty list.
TestValidInputs ==
    { <<<< >>, None>>, <<<<0>>, Some(<< >>)>>,
      <<<<-1>>, None>>, <<<<NRows>>, Some(<< >>)>> }

\* the target columns of the frames: one class, or two classes in turn
TargetColumns == {[i \in 1..NRows |-> c * (i % 2)] : c \in {0, 1}}

\* CustomDataset.__init__ : the state after construction
DsInit ==
    /\ original_data \in Frames
    /\ ids = [i \in 1..NRows |-> i]
    /\ ds_y \in TargetColumns
    /\ ds_n = Len(original_data)
    /\ encodings = ExtractEncodings(original_data)
    /\ train_mask = AllRows(original_data)
    /\ test_mask = <<>>
    /\ valid_mask = Some(<<>>)
    /\ LET st == current_train_stats(original_data, AllRows(original_data))
       IN  /\ used_stats = st
           /\ x_cont = [i \in 1..NRows |->
                          preprocess_continuous(original_data[i].cont, st.mu, st.std)]
           /\ x_cat = [i \in 1..NRows |->
                          preprocess_categoricals(original_data[i].cat, st.modes,
                                                  ExtractEncodings(original_data))]
    /\ ds_raised = FALSE

\* CustomDataset.update_masks(train_mask, test_mask, valid_mask)
update_masks(tr, te, va) ==
    /\ train_mask' = tr
    /\ valid_mask' = va
    /\ test_mask' = te
    /\ \E st \in {current_train_stats(original_data, tr)} :
           IF st.raised
           THEN /\ ds_raised' = TRUE
                /\ UNCHANGED <<x_cont, x_cat, used_stats, encodings>>
           ELSE /\ ds_raised' = FALSE
                /\ used_stats' = st
                /\ x_cont' = numerical_setter(st.mu, st.std)
                /\ x_cat' = categorical_setter(st.modes)
                /\ encodings' = categorical_setter_encodings(st.modes)
    /\ UNCHANGED <<original_data, ids, ds_y, ds_n>>

UpdateMasks ==
    /\ \E tr \in TrainMaskInputs, tv \in TestValidInputs :
          update_masks(tr, tv[1], tv[2])
    /\ UNCHANGED ds_others

\* the dataset before any is constructed in the other specifications
DsIdle ==
    /\ original_data = <<>> /\ encodings = <<>>
    /\ train_mask = <<>> /\ valid_mask = None /\ test_mask = <<>>
    /\ x_cont = <<>> /\ x_cat = <<>> /\ used_stats = <<>>
    /\ ds_raised = FALSE
    /\ ids = <<>> /\ ds_y = <<>> /\ ds_n = 0


(***************************************************************************)
(* Sampler                                                                 *)
(***************************************************************************)
\* The frames of the Sampler are carried as the set of their row labels
\* (unique, 0..n-1); the target of a row is looked up in the learning set.
\* The order in which sample(frac=1) leaves the rows is not carried.
SampLabels == 0..(NSampRows - 1)

TargetInputs == {0, 1}

\* test_size as passed by callers: a count, a fraction in (0, 1), a
\* negative number
TestSizeInputs == {<<-1, 1>>, <<1, 2>>, <<1, 1>>, <<2, 1>>}

\* floor of a / b for b > 0: int() of a non-negative float
Floor(a, b) == a \div b

\* np.rint(a / b) for a >= 0, b > 0: to the nearest integer, halves to even
RInt(a, b) ==
    LET q == a \div b
        r == a % b
    IN  IF 2 * r < b THEN q
        ELSE IF 2 * r > b THEN q + 1
        ELSE IF q % 2 = 0 THEN q ELSE q + 1

\* the number of rows asked for: n itself, or int(n * df.shape[0]) when
\* 0 < n < 1 (lines 156-158)
SampleCount(df, n) ==
    IF 0 < n[1] /\ n[1] < n[2] THEN Floor(n[1] * Cardinality(df), n[2])
    ELSE n[1] \div n[2]

\* the strata of the groupby: the rows of df of each target value
Stratum(df, t) == {r \in df : learning_set[r] = t}

\* rows drawn from the stratum of t: int(np.rint(n * len(x) / len(sample)))
StratumCount(df, n, t) ==
    RInt(SampleCount(df, n) * Cardinality(Stratum(df, t)), Cardinality(df))

\* stratified_sample raises: n < 0 (line 153), or a stratum asked for more
\* rows than it holds (DataFrame.sample without replacement)
SampleRaises(df, n) ==
    \/ n[1] < 0
    \/ \E t \in TargetInputs :
          /\ Stratum(df, t) # {}
          /\ StratumCount(df, n, t) > Cardinality(Stratum(df, t))

\* the samples stratified_sample can return: from every stratum, any
\* StratumCount of its rows
stratified_sample(df, n) ==
    {S \in SUBSET df :
        \A t \in TargetInputs :
            Stratum(df, t) # {} =>
                Cardinality(S \cap Stratum(df, t)) = StratumCount(df, n, t)}

\* train_data = df.drop(test_data.index) taken against another frame
drop_from_learning_set(df, test_data) == SampLabels \ test_data

\* train_data = df.drop(test_data.index)
drop(df, test_data) == df \ test_data

\* split_train_test(df, target_col, test_size): the (train, test) pairs it
\* can return
split_train_test(df, n) ==
    {[train |-> drop(df, test_data), test |-> test_data] :
        test_data \in stratified_sample(df, n)}

\* dataframes_to_datasets(train, test): {"train": ..., "test": ...}; the
\* test dataset is given the mean and std of train (lines 83, 89-90),
\* carried as the frame they are computed from
dataframes_to_datasets(train, test) ==
    [train |-> train, test |-> test, test_norm |-> train]

\* line 65: outer_dict['inner'] = {}
WithInner(d) ==
    [train |-> d.train, test |-> d.test, test_norm |-> d.test_norm,
     inner |-> <<>>]

\* d with d[key] = val
DictSet(d, key, val) ==
    [x \in (DOMAIN d) \cup {key} |-> IF x = key THEN val ELSE d[x]]

EmptyDict == <<>>

\* the learning sets: rows of target 1 first, then rows of target 0 (the
\* sampling does not depend on which labels carry which target)
LearningSetInputs ==
    {[r \in SampLabels |-> IF r < c THEN 1 ELSE 0] : c \in 0..NSampRows}

SmInit ==
    /\ learning_set \in LearningSetInputs
    /\ sm_k \in 1..MaxK
    /\ sm_l \in 0..MaxL
    /\ sm_k * (1 + sm_l) <= MaxSplits
    /\ sm_test_size \in TestSizeInputs
    /\ sm_pc = "outer"
    /\ sm_i = 0
    /\ sm_j = 0
    /\ outer_dict = EmptyDict
    /\ all_datasets = EmptyDict

SmIdle ==
    /\ learning_set = <<>> /\ sm_k = 0 /\ sm_l = 0 /\ sm_test_size = <<0, 1>>
    /\ sm_pc = "idle" /\ sm_i = 0 /\ sm_j = 0
    /\ outer_dict = EmptyDict /\ all_datasets = EmptyDict

\* where the loops stand once the inner loop of outer loop i is over
AfterInner(i) ==
    /\ sm_i' = i + 1
    /\ sm_j' = 0
    /\ sm_pc' = IF i + 1 < sm_k THEN "outer" ELSE "returned"

\* line 72, inside the inner loop: all_datasets[i] = outer_dict.  The
\* outer loop body (j = -1) does not store it.
store_outer(j, od) ==
    IF j >= 0 THEN DictSet(all_datasets, sm_i, od) ELSE all_datasets

\* lines 58-65: one pass of the outer loop body up to the inner loop
SamplerOuter ==
    /\ sm_pc = "outer"
    /\ sm_i < sm_k
    /\ IF SampleRaises(SampLabels, sm_test_size)
       THEN /\ sm_pc' = "raised"
            /\ UNCHANGED <<sm_i, sm_j, outer_dict, all_datasets>>
       ELSE \E s \in split_train_test(SampLabels, sm_test_size) :
              \E od \in {WithInner(dataframes_to_datasets(s.train, s.test))} :
                /\ outer_dict' = od
                /\ all_datasets' = store_outer(-1, od)
                /\ IF sm_l > 0
                   THEN /\ sm_pc' = "inner" /\ sm_j' = 0 /\ UNCHANGED sm_i
                   ELSE AfterInner(sm_i)
    /\ UNCHANGED <<learning_set, sm_k, sm_l, sm_test_size>>
    /\ UNCHANGED sm_others

\* the frame the inner loop resamples: the train frame of the outer loop
inner_source_learning_set(od) == SampLabels

inner_source(od) == od.train

\* lines 68-72: one pass of the inner loop body
SamplerInner ==
    /\ sm_pc = "inner"
    /\ sm_j < sm_l
    /\ IF SampleRaises(inner_source(outer_dict), sm_test_size)
       THEN /\ sm_pc' = "raised"
            /\ UNCHANGED <<sm_i, sm_j, outer_dict, all_datasets>>
       ELSE \E s \in split_train_test(inner_source(outer_dict), sm_test_size) :
              \E od \in {[outer_dict EXCEPT !.inner =
                            DictSet(outer_dict.inner, sm_j,
                                    dataframes_to_datasets(s.train, s.test))]} :
                /\ outer_dict' = od
                /\ all_datasets' = store_outer(sm_j, od)
                /\ IF sm_j + 1 < sm_l
                   THEN /\ sm_j' = sm_j + 1 /\ UNCHANGED <<sm_i, sm_pc>>
                   ELSE AfterInner(sm_i)
    /\ UNCHANGED <<learning_set, sm_k, sm_l, sm_test_size>>
    /\ UNCHANGED sm_others

(***************************************************************************)
(* Evaluator                                                               *)
(***************************************************************************)
EvaluatorInputs ==
    { [class |-> "NNEvaluator", es |-> TRUE],
      [class |-> "NNEvaluator", es |-> FALSE],
      [class |-> "RFEvaluator", es |-> FALSE] }

\* the callables handed as model_generator: ModelGenerator
\* (Models/ModelGenerator.py), whose __call__ takes layers, dropout and
\* activation, and a generator of forests, whose call takes n_estimators,
\* max_features, max_depth and max_samples
ModelGenerators == {"ModelGenerator", "forest generator"}

\* an Evaluator just constructed, in a working directory without a
\* checkpoints folder
EvInit ==
    /\ \E e \in EvaluatorInputs :
          evaluator = e.class /\ early_stopping_activated = e.es
    /\ model_generator \in ModelGenerators
    /\ ev_k \in 1..MaxFolds
    /\ evaluation_metrics \in 0..MaxMetrics
    /\ ev_pc = "start"
    /\ ev_fold = 0
    /\ ev_metric = 0
    /\ ev_log = [f \in 0..(ev_k - 1) |-> <<>>]
    /\ checkpoints = FALSE
    /\ model = 0
    /\ ev_instances = 0
    /\ ev_fitted = {}
    /\ ev_used = {}

EvIdle ==
    /\ evaluator = "none" /\ early_stopping_activated = FALSE
    /\ model_generator = "none"
    /\ ev_k = 0 /\ evaluation_metrics = 0
    /\ ev_pc = "idle" /\ ev_fold = 0 /\ ev_metric = 0
    /\ ev_log = <<>> /\ checkpoints = FALSE
    /\ model = 0 /\ ev_instances = 0 /\ ev_fitted = {} /\ ev_used = {}

ev_params == <<evaluator, early_stopping_activated, model_generator, ev_k,
               evaluation_metrics>>

ev_models == <<model, ev_instances, ev_fitted, ev_used>>

\* the calls of this fold so far, followed by calls
Logged(calls) == [ev_log EXCEPT ![ev_fold] = @ \o calls]

\* An exception raised in the loop body: nested_cross_valid has no handler
\* around the fold, nor has NNEvaluator.nested_cross_valid around the call
\* of super(), so the exception leaves both.
Raise ==
    /\ ev_pc' = "raised"
    /\ UNCHANGED <<ev_fold, ev_metric, checkpoints>>

\* NNEvaluator.nested_cross_valid lines 205-207, then Evaluator's lines
\* 79-91 (seeds, sampler, recording folder)
EvStart ==
    /\ ev_pc = "start"
    /\ checkpoints' = IF evaluator = "NNEvaluator" /\ early_stopping_activated
                         /\ ~checkpoints
                      THEN TRUE ELSE checkpoints
    /\ ev_pc' = "tune"
    /\ UNCHANGED <<ev_fold, ev_metric, ev_log, ev_params, ev_models>>
    /\ UNCHANGED ev_others

\* lines 97-108: datasets, recorder, tuner, tuner.tune()
EvTune ==
    /\ ev_pc = "tune"
    /\ \E ok \in BOOLEAN :
          IF ok
          THEN /\ ev_log' = Logged(<<"tune">>)
               /\ ev_pc' = "build"
               /\ UNCHANGED <<ev_fold, ev_metric, checkpoints>>
          ELSE Raise /\ UNCHANGED ev_log
    /\ UNCHANGED <<ev_params, ev_models>>
    /\ UNCHANGED ev_others

\* lines 111-120: the hyperparameters are recorded, the model and the
\* trainer created
build_calls ==
    <<"record_hyperparameters", "record_hyperparameters_importance",
      "create_model", "create_trainer">>

\* An evaluator that builds its model once and hands the same instance to
\* every fold.
create_model_once(n) == 1

\* create_model (lines 236-244, 306-315): self.model_generator(...), which
\* constructs a new instance of the model class at every call
\* (ModelGenerator.__call__); n instances exist already
create_model(n) == n + 1

\* the exception of the call self.model_generator(...) of create_model:
\* NNEvaluator hands layers, dropout and activation (lines 243-244),
\* RFEvaluator n_estimators, max_features, max_depth and max_samples
\* (lines 314-316); keywords the callable does not take raise TypeError
create_model_error(class, gen) ==
    IF (class = "NNEvaluator") = (gen = "ModelGenerator")
    THEN "none" ELSE "TypeError"

\* lines 111-120; a failing create_model (line 117) leaves after the two
\* records of the hyperparameters, no instance constructed
EvBuild ==
    /\ ev_pc = "build"
    /\ IF create_model_error(evaluator, model_generator) = "none"
       THEN /\ ev_log' = Logged(build_calls)
            /\ model' = create_model(ev_instances)
            /\ ev_instances' = ev_instances + 1
            /\ ev_pc' = "fit"
            /\ UNCHANGED <<ev_fold, ev_metric, checkpoints>>
       ELSE /\ Raise
            /\ ev_log' = Logged(SubSeq(build_calls, 1, 2))
            /\ UNCHANGED <<model, ev_instances>>
    /\ UNCHANGED ev_params
    /\ UNCHANGED <<ev_fitted, ev_used>>
    /\ UNCHANGED ev_others

\* line 124: trainer.fit(train_set, val_set)
EvFit ==
    /\ ev_pc = "fit"
    /\ \E ok \in BOOLEAN :
          IF ok
          THEN /\ ev_log' = Logged(<<"fit">>)
               /\ ev_pc' = "predict"
               /\ UNCHANGED <<ev_fold, ev_metric, checkpoints>>
          ELSE Raise /\ UNCHANGED ev_log
    /\ ev_fitted' = ev_fitted \cup {<<model, ev_fold>>}
    /\ UNCHANGED <<ev_params, model, ev_instances, ev_used>>
    /\ UNCHANGED ev_others

\* The predictions recorded before they are computed.
predict_calls_record_first == <<"record_predictions", "extract_data", "predict">>

\* lines 130-136: the test data are extracted, predicted on, and the
\* predictions recorded
predict_calls == <<"extract_data", "predict", "record_predictions">>

\* lines 127-136: record_model, then the prediction on the test set.  A
\* failing trainer.extract_data (line 130; NNTrainer.extract_data raises on
\* a test set without categorical columns) leaves after record_model, a
\* failing trainer.predict (line 133) after record_model and extract_data.
EvPredict ==
    /\ ev_pc = "predict"
    /\ \E outcome \in {"ok", "extract_data raises", "predict raises"} :
          IF outcome = "ok"
          THEN /\ ev_log' = Logged(<<"record_model">> \o predict_calls)
               /\ ev_pc' = "score"
               /\ ev_metric' = 0
               /\ UNCHANGED <<ev_fold, checkpoints>>
          ELSE IF outcome = "extract_data raises"
          THEN /\ Raise
               /\ ev_log' = Logged(<<"record_model">>)
          ELSE /\ Raise
               /\ ev_log' = Logged(<<"record_model", "extract_data">>)
    /\ ev_used' = ev_used \cup {<<model, ev_fold>>}
    /\ UNCHANGED <<ev_params, model, ev_instances, ev_fitted>>
    /\ UNCHANGED ev_others

\* lines 138-140: one pass of the loop over self.evaluation_metrics
EvScore ==
    /\ ev_pc = "score"
    /\ ev_metric < evaluation_metrics
    /\ \E ok \in BOOLEAN :
          IF ok
          THEN /\ ev_log' = Logged(<<"record_scores">>)
               /\ ev_metric' = ev_metric + 1
               /\ UNCHANGED <<ev_pc, ev_fold, checkpoints>>
          ELSE Raise /\ UNCHANGED ev_log
    /\ UNCHANGED <<ev_params, ev_models>>
    /\ UNCHANGED ev_others

\* lines 143-149: generate_file, the recap and the importance chart, then
\* the next fold or the end of the loop
EvPersist ==
    /\ ev_pc = "score"
    /\ ev_metric = evaluation_metrics
    /\ \E ok \in BOOLEAN :
          IF ok
          THEN /\ ev_log' = Logged(<<"generate_file">>)
               /\ ev_fold' = ev_fold + 1
               /\ ev_metric' = 0
               /\ ev_pc' = IF ev_fold + 1 < ev_k THEN "tune" ELSE "loop_done"
               /\ UNCHANGED checkpoints
          ELSE Raise /\ UNCHANGED ev_log
    /\ UNCHANGED <<ev_params, ev_models>>
    /\ UNCHANGED ev_others

\* The end of nested_cross_valid; NNEvaluator's lines 211-215 remove the
\* checkpoints folder after super() has returned.
EvReturn ==
    /\ ev_pc = "loop_done"
    /\ checkpoints' = IF evaluator = "NNEvaluator" THEN FALSE ELSE checkpoints
    /\ ev_pc' = "returned"
    /\ UNCHANGED <<ev_fold, ev_metric, ev_log, ev_params, ev_models>>
    /\ UNCHANGED ev_others

(***************************************************************************)
(* fit with early stopping                                                 *)
(*                                                                         *)
(* The early stopper classes (Training/EarlyStopping.py,                   *)
(* src/training/early_stopping.py) are modelled from their description:    *)
(* the stopper keeps the best validation loss seen and the parameters that *)
(* gave it, counts the consecutive epochs without improvement and reports  *)
(* stop once the count reaches patience.                                   *)
(***************************************************************************)
new_early_stopper(p) ==
    [patience |-> p, counter |-> 0, val_loss_min |-> None,
     early_stop |-> FALSE, best_params |-> 0]

Improves(st, loss) ==
    \/ ~st.val_loss_min.some
    \/ loss < st.val_loss_min.val

\* early_stopper(val_loss, model)
early_stopper_call(st, loss, w) ==
    IF Improves(st, loss)
    THEN [st EXCEPT !.val_loss_min = Some(loss), !.counter = 0,
                    !.best_params = w]
    ELSE [st EXCEPT !.counter = st.counter + 1,
                    !.early_stop = (st.early_stop
                                      \/ st.counter + 1 >= st.patience)]

FitClasses == {"NNTrainer", "TorchCustomModel", "HAN"}

\* the classes whose fit is TorchCustomModel.fit: the base class, its
\* _execute_valid_step taken from its description, and HAN
TorchModels == {"TorchCustomModel", "HAN"}

\* fit up to the first epoch, on a trainer that passes the assertions of
\* lines 216-217 (SpecTrainer has those that do not): NNTrainer.fit lines
\* 206-246 always builds an
\* EarlyStopping; TorchCustomModel._create_validation_objects builds an
\* EarlyStopper only for a dataset with a validation mask
FitInit ==
    /\ fit_class \in FitClasses
    /\ fit_es \in BOOLEAN
    /\ fit_x_cat \in (IF fit_class = "NNTrainer" THEN BOOLEAN ELSE {TRUE})
    /\ max_epochs \in 1..MaxEpochs
    /\ patience \in 1..MaxPatience
    /\ fit_pc = "train"
    /\ epoch = 0
    /\ weights = 0
    /\ early_stopper = IF fit_class = "NNTrainer" \/ fit_es
                       THEN Some(new_early_stopper(patience))
                       ELSE None
    /\ checkpoint_file = FALSE

FitIdle ==
    /\ fit_class = "none" /\ fit_es = FALSE /\ fit_x_cat = TRUE
    /\ max_epochs = 0 /\ patience = 0
    /\ fit_pc = "idle" /\ epoch = 0 /\ weights = 0
    /\ early_stopper = None /\ checkpoint_file = FALSE

fit_params == <<fit_class, fit_es, fit_x_cat, max_epochs, patience>>

LossInputs == 1..MaxLoss

\* NNTrainer.fit lines 248-269: the for loop has no break, every epoch of
\* range(self.epochs) runs whatever the early stopper reported
next_epoch ==
    IF epoch + 1 < max_epochs
    THEN fit_pc' = "train" /\ epoch' = epoch + 1
    ELSE fit_pc' = "returned" /\ UNCHANGED epoch

\* NNTrainer.fit lines 255-259: self.train(train_loader, optimizer).  The
\* optimizer holds the parameters of the module self.model named at line
\* 233; train (lines 284-320) runs the forward and backward pass on the
\* current self.model and steps that optimizer.  Once evaluate has rebound
\* self.model to the stopper's best model (line 354), the module trained
\* on is no longer the one the optimizer updates: the epoch runs and
\* leaves the parameters of self.model as they are.
TrainerTrain ==
    /\ fit_class = "NNTrainer"
    /\ fit_pc = "train"
    /\ weights' = IF fit_es /\ early_stopper.val.early_stop
                  THEN weights
                  ELSE epoch + 1
    /\ fit_pc' = "valid"
    /\ UNCHANGED <<epoch, early_stopper, checkpoint_file, fit_params>>
    /\ UNCHANGED fit_others

\* NNTrainer.fit lines 266-267 with NNTrainer.evaluate lines 322-356, then
\* the next pass of the loop or the return of line 269.  evaluate opens
\* with self.extract_data(valid_set) (line 340), which raises
\* AttributeError for a set without categorical columns (line 372).
TrainerEvaluate ==
    /\ fit_class = "NNTrainer"
    /\ fit_pc = "valid"
    /\ \E val_epoch_loss \in LossInputs :
          IF ~fit_x_cat
          THEN /\ fit_pc' = "raised"
               /\ UNCHANGED <<early_stopper, weights, epoch>>
          ELSE IF fit_es
          THEN \E st \in {early_stopper_call(early_stopper.val,
                                             val_epoch_loss, weights)} :
                 /\ early_stopper' = Some(st)
                 /\ weights' = IF st.early_stop THEN st.best_params
                                ELSE weights
                 /\ next_epoch
          ELSE /\ UNCHANGED <<early_stopper, weights>>
               /\ next_epoch
    /\ UNCHANGED <<checkpoint_file, fit_params>>
    /\ UNCHANGED fit_others

\* TorchCustomModel.fit lines 102-104: self._execute_train_step
ModelTrainStep ==
    /\ fit_class \in TorchModels
    /\ fit_pc = "train"
    /\ weights' = epoch + 1
    /\ fit_pc' = "valid"
    /\ UNCHANGED <<epoch, early_stopper, checkpoint_file, fit_params>>
    /\ UNCHANGED fit_others

\* TorchCustomModel.fit lines 107-110: self._execute_valid_step, and the
\* break when it returns True; the stopper writes its checkpoint when the
\* loss improves.  HAN._execute_valid_step (han_base_models.py 206-211)
\* opens with "valid_loader, dataset = valid_data", which raises TypeError
\* for the valid_data = None of a dataset without validation mask.
ModelValidStep ==
    /\ fit_class \in TorchModels
    /\ fit_pc = "valid"
    /\ IF fit_class = "HAN" /\ ~early_stopper.some
       THEN /\ fit_pc' = "raised"
            /\ UNCHANGED <<early_stopper, checkpoint_file, epoch>>
       ELSE IF early_stopper.some
       THEN \E val_epoch_loss \in LossInputs :
              \E st \in {early_stopper_call(early_stopper.val,
                                            val_epoch_loss, weights)} :
                /\ early_stopper' = Some(st)
                /\ checkpoint_file' =
                      (checkpoint_file
                         \/ Improves(early_stopper.val, val_epoch_loss))
                /\ IF ~st.early_stop /\ epoch + 1 < max_epochs
                   THEN fit_pc' = "train" /\ epoch' = epoch + 1
                   ELSE fit_pc' = "finalize" /\ UNCHANGED epoch
       ELSE /\ UNCHANGED <<early_stopper, checkpoint_file>>
            /\ IF epoch + 1 < max_epochs
               THEN fit_pc' = "train" /\ epoch' = epoch + 1
               ELSE fit_pc' = "finalize" /\ UNCHANGED epoch
    /\ UNCHANGED <<weights, fit_params>>
    /\ UNCHANGED fit_others

\* TorchCustomModel.fit lines 112-116: the best parameters are loaded and
\* the checkpoint removed
ModelFinalize ==
    /\ fit_class \in TorchModels
    /\ fit_pc = "finalize"
    /\ IF early_stopper.some
       THEN /\ weights' = early_stopper.val.best_params
            /\ checkpoint_file' = FALSE
       ELSE UNCHANGED <<weights, checkpoint_file>>
    /\ fit_pc' = "returned"
    /\ UNCHANGED <<epoch, early_stopper, fit_params>>
    /\ UNCHANGED fit_others

(***************************************************************************)
(* Trainer.inner_random_subsampling                                        *)
(*                                                                         *)
(* subprocess is a ray remote function whose closure holds self, the       *)
(* trainer with its model.  A worker process loads the function, and with  *)
(* it its own copy of the trainer, once, and runs the tasks it is given    *)
(* one after the other on that copy.  Which worker runs which task is the  *)
(* scheduler's choice.                                                     *)
(***************************************************************************)
ScoreInputs == 1..MaxScore

InnerSplits == 0..(irs_l - 1)

\* the trainer after define_subprocess (or without it), before a call of
\* inner_random_subsampling(l); the model is untrained
IrsInit ==
    /\ subprocess_defined \in BOOLEAN
    /\ irs_l \in 1..MaxInner
    /\ irs_workers \in 1..MaxWorkers
    /\ irs_pc = "call"
    /\ runs = [i \in InnerSplits |-> 0]
    /\ worker_model = [w \in 1..irs_workers |-> {}]
    /\ fit_start = [i \in InnerSplits |-> None]
    /\ scores = [i \in InnerSplits |-> None]
    /\ irs_result = None

IrsIdle ==
    /\ subprocess_defined = FALSE /\ irs_l = 0 /\ irs_workers = 0
    /\ irs_pc = "idle" /\ runs = <<>> /\ worker_model = <<>>
    /\ fit_start = <<>> /\ scores = <<>> /\ irs_result = None

irs_params == <<subprocess_defined, irs_l, irs_workers>>

\* lines 58-66: the assertion, then futures = [self.subprocess.remote(i)
\* for i in range(l)]
IrsDispatch ==
    /\ irs_pc = "call"
    /\ irs_pc' = IF subprocess_defined THEN "dispatched" ELSE "raised"
    /\ UNCHANGED <<runs, worker_model, fit_start, scores, irs_result,
                   irs_params>>
    /\ UNCHANGED irs_others

\* the model of a fit that begins on a model already fitted on the splits
\* of before and trains on split i: NNTrainer.fit builds its optimizer on
\* self.model.parameters() and trains them in place (lines 232-259)
fit_model(before, i) == before \cup {i}

\* define_subprocess lines 86-106: the task subprocess(i), run by worker w:
\* get_datasets, self.fit, extract_data, the metric of self.predict
Subprocess ==
    /\ irs_pc = "dispatched"
    /\ \E i \in InnerSplits, w \in 1..irs_workers, score \in ScoreInputs :
          /\ runs[i] = 0
          /\ runs' = [runs EXCEPT ![i] = 1]
          /\ fit_start' = [fit_start EXCEPT ![i] = Some(worker_model[w])]
          /\ worker_model' =
                [worker_model EXCEPT ![w] = fit_model(worker_model[w], i)]
          /\ scores' = [scores EXCEPT ![i] = Some(score)]
    /\ UNCHANGED <<irs_pc, irs_result, irs_params>>
    /\ UNCHANGED irs_others

\* line 67: scores = ray.get(futures) blocks until every task has returned
gathered(sc) == \A i \in DOMAIN sc : sc[i].some

\* the scores that are there, in the order of the futures
RECURSIVE score_list(_, _)
score_list(sc, i) ==
    IF i \notin DOMAIN sc THEN <<>>
    ELSE (IF sc[i].some THEN <<sc[i].val>> ELSE <<>>) \o score_list(sc, i + 1)

\* numpy's std(scores), carried as its square: the population variance
StdScores(sl) ==
    LET n == Len(sl)
        t == SumSeq(sl)
        q == SumSeq([x \in 1..n |-> sl[x] * sl[x]])
    IN  Rat(n * q - t * t, n * n)

\* The standard deviation taken whatever the number of scores.
standard_dev_of_all(sl) == StdScores(sl)

\* line 70: standard_dev = 1 if len(scores) == 1 else std(scores)
standard_dev(sl) == IF Len(sl) = 1 THEN <<1, 1>> ELSE StdScores(sl)

\* line 71: mean(scores) / standard_dev, the quotient carried as the mean
\* and the square of the divisor (a zero divisor gives inf, not an error)
aggregate(sl) ==
    [mean |-> Rat(SumSeq(sl), Len(sl)), std2 |-> standard_dev(sl)]

\* lines 67-71: the scores gathered and aggregated
IrsGather ==
    /\ irs_pc = "dispatched"
    /\ gathered(scores)
    /\ irs_result' = Some(aggregate(score_list(scores, 0)))
    /\ irs_pc' = "returned"
    /\ UNCHANGED <<runs, worker_model, fit_start, scores, irs_params>>
    /\ UNCHANGED irs_others

(***************************************************************************)
(* stratified_sample and split_train_test on one frame                     *)
(*                                                                         *)
(* A frame is its target column, a function from the row labels 0..N-1 (in *)
(* the order of the frame) to the target values; samples are sequences of  *)
(* row labels.                                                             *)
(***************************************************************************)
\* quantiles=4, the default of stratified_sample
quantiles == 4

\* len(df[target_col].unique()) > 10
unique_limit == 10

Range(f) == {f[x] : x \in DOMAIN f}

\* the row labels of a frame, in the order of the frame
RowLabels(tg) == [i \in 1..Cardinality(DOMAIN tg) |-> i - 1]

\* the small frames: rows in the order of their targets
SmallFrames ==
    {tg \in [SampLabels -> 0..MaxTarget] :
        \A r \in SampLabels : r > 0 => tg[r - 1] <= tg[r]}

\* the large frames, rows in the order of their targets: every row its own
\* target value; five rows at 0 and the others at 1, 2, ...; ten target
\* values spread over the rows
LargeFrames ==
    { [r \in 0..(NLargeRows - 1) |-> r],
      [r \in 0..(NLargeRows - 1) |-> IF r < 5 THEN 0 ELSE r - 4],
      [r \in 0..(NLargeRows - 1) |-> (r * unique_limit) \div NLargeRows] }

\* the rankings of the positions 1..m
Rankings(m) ==
    {g \in [1..m -> 1..m] : \A a, b \in 1..m : a # b => g[a] # g[b]}

\* A sample drawn with replacement: any cnt rows, a row as often as drawn.
DataFrameSampleReplace(x, cnt, rs) == [1..cnt -> Range(x)]

\* the outcomes of x.sample(cnt, random_state=rs) for cnt <= len(x).  With
\* an integer rs every call of sample builds a new RandomState(rs) and takes
\* the first cnt positions of the permutation of len(x) positions it gives
\* first: the draw depends on the seed, on len(x) and on cnt alone, and two
\* frames of one length are sampled at the same positions.  With rs = None
\* the draw comes from the global generator: any cnt different rows in any
\* order.
DataFrameSample(x, cnt, rs) ==
    IF rs.some
    THEN {[i \in 1..cnt |-> x[generator[Len(x)][i]]]}
    ELSE {d \in [1..cnt -> Range(x)] :
             \A a, b \in 1..cnt : a # b => d[a] # d[b]}

\* A conversion that rounds the fraction of the rows up.
to_count_ceiling(n, rows) ==
    IF 0 < n[1] /\ n[1] < n[2]
    THEN <<(n[1] * rows + n[2] - 1) \div n[2], 1>>
    ELSE n

\* lines 156-158: elif 0 < n < 1: n = int(n*df.shape[0])
to_count(n, rows) ==
    IF 0 < n[1] /\ n[1] < n[2] THEN <<Floor(n[1] * rows, n[2]), 1>> ELSE n

\* four times the k-th of the quantile edges of pd.qcut: the value at
\* position k*(N-1)/quantiles of the sorted column (the frames are in the
\* order of their targets), interpolated
QuantileEdge(tg, k) ==
    LET last == Cardinality(DOMAIN tg) - 1
        lo == (k * last) \div quantiles
        r == (k * last) % quantiles
    IN  IF r = 0 THEN quantiles * tg[lo]
        ELSE quantiles * tg[lo] + r * (tg[lo + 1] - tg[lo])

\* pd.qcut raises ValueError when two edges are equal
QcutRaises(tg) ==
    \E k \in 1..quantiles : QuantileEdge(tg, k - 1) = QuantileEdge(tg, k)

\* pd.qcut(sample[target_col], quantiles, labels=False): the bucket of a
\* value, the lowest value included in bucket 0
Qcut(tg, v) ==
    IF quantiles * v <= QuantileEdge(tg, 1) THEN 0
    ELSE CHOOSE k \in 1..(quantiles - 1) :
            /\ QuantileEdge(tg, k) < quantiles * v
            /\ quantiles * v <= QuantileEdge(tg, k + 1)

\* lines 165-167: the column the sampling is stratified on
UsesQuantiles(tg) == Cardinality(Range(tg)) > unique_limit

StrataColumn(tg) ==
    IF UsesQuantiles(tg) THEN [r \in DOMAIN tg |-> Qcut(tg, tg[r])] ELSE tg

\* the keys of the groupby, sorted
GroupKeys(col) == SortedSeq(Range(col))

\* the rows of the group of key t, in the order of the frame
GroupRows(col, t) == SelectSeq(RowLabels(col), LAMBDA r : col[r] = t)

\* line 171: int(np.rint(n*len(x)/len(sample)))
group_count(n, size, rows) == RInt(n[1] * size, n[2] * rows)

\* lines 170-171: the groups sampled one after the other and concatenated
RECURSIVE GroupSamples(_, _, _, _)
GroupSamples(col, keys, n, rs) ==
    IF keys = <<>> THEN {<<>>}
    ELSE LET x == GroupRows(col, Head(keys))
             cnt == group_count(n, Len(x), Cardinality(DOMAIN col))
         IN  {a \o b : a \in DataFrameSample(x, cnt, rs),
                       b \in GroupSamples(col, Tail(keys), n, rs)}

\* stratified_sample(df, target_col, n, random_state=rs): its possible
\* outcomes.  raised: "Exception" of lines 151-154, "ValueError" of qcut or
\* of a sample larger than its group, "none".
stratified_sample_rows(tg, has_target, n, rs) ==
    IF ~has_target \/ n[1] < 0
    THEN {[raised |-> "Exception", n |-> n, quantiles |-> FALSE, rows |-> <<>>]}
    ELSE LET rows == Cardinality(DOMAIN tg)
             m == to_count(n, rows)
         IN  IF UsesQuantiles(tg) /\ QcutRaises(tg)
             THEN {[raised |-> "ValueError", n |-> m, quantiles |-> TRUE,
                    rows |-> <<>>]}
             ELSE LET col == StrataColumn(tg)
                  IN  IF \E t \in Range(col) :
                            group_count(m, Len(GroupRows(col, t)), rows)
                                > Len(GroupRows(col, t))
                      THEN {[raised |-> "ValueError", n |-> m,
                             quantiles |-> UsesQuantiles(tg), rows |-> <<>>]}
                      ELSE {[raised |-> "none", n |-> m,
                             quantiles |-> UsesQuantiles(tg), rows |-> sh] :
                              sh \in UNION {DataFrameSample(c, Len(c), rs) :
                                  c \in GroupSamples(col, GroupKeys(col), m, rs)}}

\* A split whose sampling ignores random_state.
split_train_test_unseeded(tg, has_target, n, rs) ==
    {[raised |-> o.raised, n |-> o.n, quantiles |-> o.quantiles,
      test |-> o.rows,
      train |-> IF o.raised = "none"
                THEN SelectSeq(RowLabels(tg), LAMBDA r : r \notin Range(o.rows))
                ELSE <<>>] :
        o \in stratified_sample_rows(tg, has_target, n, None)}

\* split_train_test(df, target_col, test_size, random_state): lines 134-137
split_train_test_rows(tg, has_target, n, rs) ==
    {[raised |-> o.raised, n |-> o.n, quantiles |-> o.quantiles,
      test |-> o.rows,
      train |-> IF o.raised = "none"
                THEN SelectSeq(RowLabels(tg), LAMBDA r : r \notin Range(o.rows))
                ELSE <<>>] :
        o \in stratified_sample_rows(tg, has_target, n, rs)}

\* the sizes asked of a small frame and of a large one
SmallSizes ==
    {<<-1, 1>>, <<0, 1>>, <<1, 3>>, <<1, 2>>, <<1, 1>>, <<2, 1>>,
     <<NSampRows - 1, 1>>, <<NSampRows, 1>>, <<NSampRows + 1, 1>>}

LargeSizes == {<<2, 1>>, <<4, 1>>}

\* the integer seeds handed as random_state
Seeds == {0, 1}

\* the lengths of the frames a call draws rows from: the groups asked for
\* a row or more (line 171) and the sample that is shuffled (line 172);
\* none when the call raises
PopulationSizes(tg, has_target, n) ==
    IF ~has_target \/ n[1] < 0 THEN {}
    ELSE IF UsesQuantiles(tg) /\ QcutRaises(tg) THEN {}
    ELSE LET rows == Cardinality(DOMAIN tg)
             m == to_count(n, rows)
             col == StrataColumn(tg)
             keys == GroupKeys(col)
             cnt == [k \in 1..Len(keys) |->
                        group_count(m, Len(GroupRows(col, keys[k])), rows)]
         IN  IF \E k \in 1..Len(keys) :
                    cnt[k] > Len(GroupRows(col, keys[k]))
             THEN {}
             ELSE ({Len(GroupRows(col, keys[k])) : k \in 1..Len(keys)}
                       \cup {SumSeq(cnt)})
                  \ {0}

\* the generators a seed can stand for, on the lengths of pop: for each of
\* these lengths any permutation of its positions, for the others, which
\* no draw reads, none
RECURSIVE Generators(_, _)
Generators(pop, m) ==
    IF m = 0 THEN {<<>>}
    ELSE {Append(g, r) : g \in Generators(pop, m - 1),
                         r \in (IF m \in pop THEN Rankings(m) ELSE {<<>>})}

\* The arguments of the calls.  A caller with a seed repeats its call.
SsInit ==
    /\ \/ /\ ss_target \in SmallFrames
          /\ ss_n \in SmallSizes
          /\ ss_has_target \in BOOLEAN
       \/ /\ ss_target \in LargeFrames
          /\ ss_n \in LargeSizes
          /\ ss_has_target = TRUE
    /\ \/ /\ random_state \in {Some(seed) : seed \in Seeds}
          /\ generator \in
                Generators(PopulationSizes(ss_target, ss_has_target, ss_n),
                           Cardinality(DOMAIN ss_target))
          /\ ss_calls = 2
       \/ /\ random_state = None
          /\ generator = <<>>
          /\ ss_calls = 1
    /\ ss_out = <<>>

SsIdle ==
    /\ ss_target = <<>> /\ ss_has_target = FALSE /\ ss_n = <<0, 1>>
    /\ random_state = None /\ generator = <<>> /\ ss_calls = 0
    /\ ss_out = <<>>

\* one call of split_train_test with the arguments
SplitTrainTest ==
    /\ Len(ss_out) < ss_calls
    /\ \E o \in split_train_test_rows(ss_target, ss_has_target, ss_n,
                                       random_state) :
          ss_out' = Append(ss_out, o)
    /\ UNCHANGED <<ss_target, ss_has_target, ss_n, random_state, generator,
                   ss_calls>>
    /\ UNCHANGED ss_others

(***************************************************************************)
(* CustomDataset.__init__ and the columns of its frame                     *)
(*                                                                         *)
(* The frame is carried as the set of its column names; its rows are those *)
(* of a frame the statistics are defined on.                               *)
(***************************************************************************)
\* PARTICIPANT, the name of the column of the participants' ids
PARTICIPANT == "PARTICIPANT"

\* the name handed as target
target == "target"

\* the frames: every set of these columns
ColumnInputs == SUBSET {PARTICIPANT, target, "age", "weight", "sex"}

\* the lists handed as cont_cols and as cat_cols
ContColsInputs == {None, Some(<<"age">>), Some(<<"age", "weight">>)}

CatColsInputs == {None, Some(<<"sex">>)}

\* A check that lets every list of columns through.
check_columns_validity_skipped(df_columns, columns) == TRUE

\* check_columns_validity(df, columns): TRUE iff no assertion fails
check_columns_validity(df_columns, columns) ==
    columns.some => \A i \in 1..Len(columns.val) : columns.val[i] \in df_columns

\* df[columns] raises KeyError when a name is not a column of the frame
KeyError(df_columns, columns) ==
    \E i \in 1..Len(columns) : columns[i] \notin df_columns

\* CustomDataset.__init__(df, target, cont_cols, cat_cols): the exception it
\* raises and what it did to the object before, in the order of the code:
\* the assertions (36-40), _ids (46), the empty masks (48), _original_data
\* and _n (49-50), _y (51), the encodings (58), the conversion of the
\* continuous columns (61), the setters (64-65), update_masks (68).
custom_dataset_init(df_columns, cont_cols, cat_cols) ==
    IF PARTICIPANT \notin df_columns
    THEN [error |-> "AssertionError", steps |-> <<>>]
    ELSE IF ~cont_cols.some /\ ~cat_cols.some
    THEN [error |-> "AssertionError", steps |-> <<>>]
    ELSE IF ~check_columns_validity(df_columns, cont_cols)
            \/ ~check_columns_validity(df_columns, cat_cols)
    THEN [error |-> "AssertionError", steps |-> <<>>]
    ELSE IF KeyError(df_columns, <<target>>)
    THEN [error |-> "KeyError", steps |-> <<"ids", "masks", "original_data">>]
    ELSE IF cat_cols.some /\ KeyError(df_columns, cat_cols.val)
    THEN [error |-> "KeyError",
          steps |-> <<"ids", "masks", "original_data", "targets">>]
    ELSE IF cont_cols.some /\ KeyError(df_columns, cont_cols.val)
    THEN [error |-> "KeyError",
          steps |-> <<"ids", "masks", "original_data", "targets", "encodings">>]
    ELSE [error |-> "none",
          steps |-> <<"ids", "masks", "original_data", "targets", "encodings",
                      "floats", "setters", "masks", "statistics", "features">>]

\* update_masks on the object: current_train_stats and the setters read
\* the listed columns of the original data
update_masks_columns(df_columns, cont_cols, cat_cols) ==
    IF \/ cont_cols.some /\ KeyError(df_columns, cont_cols.val)
       \/ cat_cols.some /\ KeyError(df_columns, cat_cols.val)
    THEN "KeyError" ELSE "none"

\* PetaleRFDataset.__init__, lines 357-360: df.drop([PARTICIPANT, target],
\* axis=1) raises KeyError when the frame lacks one of the two columns,
\* before CustomDataset.__init__ is entered
petale_rf_dataset_init(df_columns, cont_cols, cat_cols) ==
    IF KeyError(df_columns, <<PARTICIPANT, target>>)
    THEN [error |-> "KeyError", steps |-> <<>>]
    ELSE custom_dataset_init(df_columns, cont_cols, cat_cols)

\* PetaleNNDataset.__init__, lines 249-252: the two attributes are set to
\* None, then CustomDataset.__init__ runs
petale_nn_dataset_init(df_columns, cont_cols, cat_cols) ==
    custom_dataset_init(df_columns, cont_cols, cat_cols)

DatasetClasses == {"PetaleNNDataset", "PetaleRFDataset"}

\* the class and the arguments of a construction
CtInit ==
    /\ ct_class \in DatasetClasses
    /\ ct_columns \in ColumnInputs
    /\ ct_cont_cols \in ContColsInputs
    /\ ct_cat_cols \in CatColsInputs
    /\ ct_pc = "new"
    /\ ct_error = "none"
    /\ ct_steps = <<>>
    /\ ct_later = <<>>

\* no construction in the other specifications
CtIdle ==
    /\ ct_class = "none"
    /\ ct_columns = {} /\ ct_cont_cols = None /\ ct_cat_cols = None
    /\ ct_pc = "idle" /\ ct_error = "none"
    /\ ct_steps = <<>> /\ ct_later = <<>>

\* the construction of a dataset of the class: the __init__ of the class,
\* which reaches CustomDataset.__init__
CustomDatasetInit ==
    /\ ct_pc = "new"
    /\ \E o \in {IF ct_class = "PetaleRFDataset"
                 THEN petale_rf_dataset_init(ct_columns, ct_cont_cols,
                                             ct_cat_cols)
                 ELSE petale_nn_dataset_init(ct_columns, ct_cont_cols,
                                             ct_cat_cols)} :
          /\ ct_error' = o.error
          /\ ct_steps' = o.steps
          /\ ct_pc' = IF o.error = "none" THEN "constructed" ELSE "raised"
    /\ UNCHANGED <<ct_class, ct_columns, ct_cont_cols, ct_cat_cols, ct_later>>
    /\ UNCHANGED ct_others

\* a call of update_masks on the constructed object
CtUpdateMasks ==
    /\ ct_pc = "constructed"
    /\ Len(ct_later) < MaxLater
    /\ ct_later' = Append(ct_later,
                     [call |-> "update_masks",
                      error |-> update_masks_columns(ct_columns, ct_cont_cols,
                                                     ct_cat_cols)])
    /\ UNCHANGED <<ct_class, ct_columns, ct_cont_cols, ct_cat_cols, ct_pc, ct_error,
                   ct_steps>>
    /\ UNCHANGED ct_others

\* a read of the features of the constructed object (x_cont, x_cat,
\* __getitem__): what the setters stored is returned
CtGetItem ==
    /\ ct_pc = "constructed"
    /\ Len(ct_later) < MaxLater
    /\ ct_later' = Append(ct_later, [call |-> "getitem", error |-> "none"])
    /\ UNCHANGED <<ct_class, ct_columns, ct_cont_cols, ct_cat_cols, ct_pc, ct_error,
                   ct_steps>>
    /\ UNCHANGED ct_others

(***************************************************************************)
(* predict of the graph models and of the trainers                         *)
(*                                                                         *)
(* A prediction is carried as the dataset index it is the prediction of.   *)
(***************************************************************************)
PredictClasses == {"GATRegressor", "HANRegressor", "RFTrainer"}

GraphModels == {"GATRegressor", "HANRegressor"}

PredRows == 0..(NPredRows - 1)

\* the lists of different indices of at most two rows, the empty one too
MaskInputs ==
    {<<>>} \cup {<<a>> : a \in PredRows}
           \cup {m \in PredRows \X PredRows : m[1] # m[2]}

\* GATRegressor.predict, lines 190-195: the mask the predictions are
\* taken for
gat_mask(mask, te) ==
    IF ~mask.some \/ \A i \in 1..Len(mask.val) : mask.val[i] \in Range(te)
    THEN te
    ELSE mask.val

\* HANRegressor.predict, lines 451-456
han_mask(mask, te) == IF mask.some THEN mask.val ELSE te

\* [idx_map[i] for i in mask] and self(g, x)[pos_idx]: one prediction for
\* each index of the mask, in the order of the mask
predict_rows(class, mask, te) ==
    IF class = "GATRegressor" THEN gat_mask(mask, te)
    ELSE han_mask(mask, te)

\* A model as constructed (Module.__init__ leaves training = True) or a
\* forest, and a dataset whose test mask holds a row or more and whose
\* train mask holds the other rows.
PdInit ==
    /\ pd_class \in PredictClasses
    /\ training = (pd_class \in GraphModels)
    /\ pd_weights = 0
    /\ \E S \in (SUBSET PredRows) \ {{}} :
          /\ pd_test_mask = SortedSeq(S)
          /\ pd_train_mask = SortedSeq(PredRows \ S)
    /\ pd_calls = 0
    /\ pd_mask = None
    /\ pd_out = <<>>

PdIdle ==
    /\ pd_class = "" /\ training = FALSE /\ pd_weights = 0
    /\ pd_train_mask = <<>> /\ pd_test_mask = <<>>
    /\ pd_calls = 0 /\ pd_mask = None /\ pd_out = <<>>

\* self._update_weights(...), called at han_base_models.py line 178 and
\* defined in no file of the sources: taken to make one update of the
\* parameters
update_weights(w) == w + 1

\* the loop of _execute_train_step, lines 166-178: one call of
\* _update_weights for each batch of the train loader
RECURSIVE execute_train_loop(_, _)
execute_train_loop(w, nb_batch) ==
    IF nb_batch = 0 THEN w
    ELSE execute_train_loop(update_weights(w), nb_batch - 1)

\* _execute_train_step on a train loader of nb_batch batches: self.train(),
\* then the loop; a loader without batch leaves the parameters as they are
ExecuteTrainStep ==
    /\ pd_class \in GraphModels
    /\ \E nb_batch \in 0..(MaxTrainSteps - pd_weights) :
          pd_weights' = execute_train_loop(pd_weights, nb_batch)
    /\ training' = TRUE
    /\ UNCHANGED <<pd_class, pd_train_mask, pd_test_mask, pd_calls, pd_mask,
                   pd_out>>
    /\ UNCHANGED pd_others

\* GATRegressor.predict(dataset, mask), HANRegressor.predict(dataset, mask):
\* self.eval(), then the forward pass under no_grad
ModelPredict ==
    /\ pd_class \in GraphModels
    /\ pd_calls < MaxPredicts
    /\ \E mask \in {None} \cup {Some(m) : m \in MaskInputs} :
          /\ pd_mask' = mask
          /\ pd_out' = predict_rows(pd_class, mask, pd_test_mask)
    /\ training' = FALSE
    /\ pd_calls' = pd_calls + 1
    /\ UNCHANGED <<pd_class, pd_weights, pd_train_mask, pd_test_mask>>
    /\ UNCHANGED pd_others

\* RFTrainer.predict(x_cont, x_cat): self.model.predict_log_proba(x_cont),
\* a row of log probabilities for each row of x_cont
TrainerPredict ==
    /\ pd_class = "RFTrainer"
    /\ pd_calls < MaxPredicts
    /\ \E m \in MaskInputs :
          /\ pd_mask' = Some(m)
          /\ pd_out' = m
    /\ pd_calls' = pd_calls + 1
    /\ UNCHANGED <<pd_class, training, pd_weights, pd_train_mask,
                   pd_test_mask>>
    /\ UNCHANGED pd_others

(***************************************************************************)
(* Evaluator.__init__ and the directory Recordings/<evaluation_name>       *)
(***************************************************************************)
EvaluationNames == {"eval_a", "eval_b"}

\* An __init__ without the assertion of lines 67-68.
evaluator_init_unchecked(dirs, name) == "none"

\* Evaluator.__init__, lines 67-68: the exception raised, "none" if none
evaluator_init(dirs, name) ==
    IF name \in dirs THEN "AssertionError" ELSE "none"

\* nested_cross_valid, line 91: makedirs(..., exist_ok=True)
makedirs(dirs, name) == dirs \cup {name}

\* The directories found when the program starts.
RcInit ==
    /\ rc_dirs \in SUBSET EvaluationNames
    /\ rc_evaluators = <<>>
    /\ rc_log = <<>>

RcIdle == rc_dirs = {} /\ rc_evaluators = <<>> /\ rc_log = <<>>

\* Evaluator(evaluation_name=name, ...): the attributes are stored, then the
\* assertion; nothing is sampled, tuned or written.
EvaluatorInit ==
    /\ Len(rc_log) < MaxEvents
    /\ \E name \in EvaluationNames :
         \E err \in {evaluator_init(rc_dirs, name)} :
            /\ rc_log' = Append(rc_log, [op |-> "__init__", name |-> name,
                                         existed |-> name \in rc_dirs,
                                         error |-> err, sampled |-> FALSE])
            /\ rc_evaluators' = IF err = "none"
                                THEN Append(rc_evaluators, name)
                                ELSE rc_evaluators
    /\ UNCHANGED rc_dirs
    /\ UNCHANGED rc_others

\* nested_cross_valid of a constructed evaluator: the sampler is called
\* (line 84) and may raise; after it the directory is made (line 91) and
\* the folds run.
EvaluatorRun ==
    /\ Len(rc_log) < MaxEvents
    /\ \E e \in 1..Len(rc_evaluators), sampled \in BOOLEAN :
          /\ rc_log' = Append(rc_log, [op |-> "nested_cross_valid",
                                       name |-> rc_evaluators[e],
                                       existed |-> rc_evaluators[e] \in rc_dirs,
                                       error |-> IF sampled THEN "none"
                                                 ELSE "sampler",
                                       sampled |-> sampled])
          /\ rc_dirs' = IF sampled THEN makedirs(rc_dirs, rc_evaluators[e])
                        ELSE rc_dirs
    /\ UNCHANGED rc_evaluators
    /\ UNCHANGED rc_others

(***************************************************************************)
(* Trainer.define_subprocess and inner_random_subsampling, call after call *)
(*                                                                         *)
(* The run of the tasks of one call is the subject of SpecIrs; here a call *)
(* is one step and the datasets dictionaries are told apart by a number.   *)
(***************************************************************************)
DatasetsInputs == 1..MaxDatasets

\* A define_subprocess that keeps the function of an earlier call.
define_subprocess_once(current, datasets) ==
    IF current.some THEN current ELSE Some(datasets)

\* define_subprocess, lines 86-109: a new remote function whose closure
\* holds the datasets of this call is stored in self.subprocess
define_subprocess(current, datasets) == Some(datasets)

\* inner_random_subsampling, lines 58-66: the assertion, then one task
\* self.subprocess.remote(i) for each i of range(l)
inner_random_subsampling_tasks(defined, subprocess, l) ==
    IF ~defined
    THEN [error |-> "AssertionError", tasks |-> <<>>]
    ELSE [error |-> "none",
          tasks |-> [k \in 1..l |-> <<subprocess.val, k - 1>>]]

\* Trainer.__init__, lines 45-47
SpInit ==
    /\ sp_defined = FALSE
    /\ sp_subprocess = None
    /\ sp_log = <<>>

SpIdle == sp_defined = FALSE /\ sp_subprocess = None /\ sp_log = <<>>

\* trainer.define_subprocess(datasets)
DefineSubprocess ==
    /\ Len(sp_log) < MaxCalls
    /\ \E datasets \in DatasetsInputs :
          /\ sp_defined' = TRUE
          /\ sp_subprocess' = define_subprocess(sp_subprocess, datasets)
          /\ sp_log' = Append(sp_log, [op |-> "define_subprocess",
                                       datasets |-> datasets,
                                       l |-> 0,
                                       error |-> "none", tasks |-> <<>>])
    /\ UNCHANGED sp_others

\* trainer.inner_random_subsampling(l)
InnerRandomSubsampling ==
    /\ Len(sp_log) < MaxCalls
    /\ \E l \in 1..MaxInner :
         \E o \in {inner_random_subsampling_tasks(sp_defined, sp_subprocess,
                                                  l)} :
            sp_log' = Append(sp_log, [op |-> "inner_random_subsampling",
                                      datasets |-> 0,
                                      l |-> l,
                                      error |-> o.error, tasks |-> o.tasks])
    /\ UNCHANGED <<sp_defined, sp_subprocess>>
    /\ UNCHANGED sp_others

(***************************************************************************)
(* NNTrainer.fit's batches, update_trainer and extract_data                *)
(***************************************************************************)
TrainerClasses == {"NNTrainer", "RFTrainer"}

BatchClasses == {"NNTrainer", "TorchCustomModel"}

TrainSizes == 1..MaxTrain

BatchSizes == 1..MaxBatch

\* the datasets handed to extract_data: X_cat is None when the dataset has
\* no categorical column
ExtractInputs ==
    [X_cont : 1..2, X_cat : {None, Some(1)}, y : {1}]

\* A fit that sets the batch size to the size of the train set.
fit_batch_size_reset(batch_size, n) == n

\* NNTrainer.fit, lines 222-224
fit_batch_size(batch_size, n) == IF n < batch_size THEN n ELSE batch_size

\* NNTrainer.fit, lines 216-217: the two assertions that open fit
fit_asserts(self_model, trial, metric) ==
    IF trial /\ ~metric THEN "AssertionError"
    ELSE IF self_model = "None" THEN "AssertionError"
    ELSE "none"

\* NNTrainer.update_trainer, lines 399-401: the model the trainer would
\* hold must be a Module
update_trainer_asserts(self_model, kw_model) ==
    IF (IF kw_model = "absent" THEN self_model ELSE kw_model) = "Module"
    THEN "none" ELSE "AssertionError"

\* the keyword arguments of update_trainer: model and trial, each absent,
\* None or an object, and batch_size, absent or a size
UpdateInputs ==
    [model : {"absent", "None", "Module"},
     trial : {"absent", "None", "Trial"},
     batch_size : {None} \cup {Some(b) : b \in BatchSizes}]

\* NNTrainer.fit, line 227
fit_drop_last(batch_size, n) == n % batch_size = 1

\* torch's DataLoader over n rows: the row count of each batch of one epoch
DataLoader(n, batch_size, drop_last) ==
    [k \in 1..(n \div batch_size) |-> batch_size]
        \o (IF n % batch_size # 0 /\ ~drop_last
            THEN <<n % batch_size>> ELSE <<>>)

\* TorchCustomModel._create_train_objects, lines 151-152
create_train_objects(n, batch_size) ==
    DataLoader(n, IF n < batch_size THEN n ELSE batch_size, FALSE)

\* extract_data of NNTrainer (lines 364-375) and of RFTrainer (447-455)
extract_data(class, dataset) ==
    IF class = "NNTrainer" /\ ~dataset.X_cat.some
    THEN [error |-> "AttributeError", x_cont |-> None, x_cat |-> None,
          y |-> None]
    ELSE [error |-> "none", x_cont |-> Some(dataset.X_cont),
          x_cat |-> dataset.X_cat, y |-> Some(dataset.y)]

NoReturn == [error |-> "pending", x_cont |-> None, x_cat |-> None, y |-> None]

TrInit ==
    /\ tr_class \in TrainerClasses \cup BatchClasses
    /\ tr_model \in
          (IF tr_class = "NNTrainer" THEN {"None", "Module"} ELSE {"Module"})
    /\ tr_trial \in (IF tr_class = "NNTrainer" THEN BOOLEAN ELSE {FALSE})
    /\ tr_metric \in (IF tr_class = "NNTrainer" THEN BOOLEAN ELSE {TRUE})
    /\ tr_batch_size \in
          (IF tr_class = "NNTrainer" THEN BatchSizes ELSE {0})
    /\ tr_batches = <<>>
    /\ tr_ret = NoReturn
    /\ tr_log = <<>>

TrIdle ==
    /\ tr_class = "NNTrainer"
    /\ tr_model = "Module" /\ tr_trial = FALSE /\ tr_metric = TRUE
    /\ tr_batch_size = 1
    /\ tr_batches = <<>>
    /\ tr_ret = NoReturn
    /\ tr_log = <<>>

\* NNTrainer.fit(train_set, val_set) up to the creation of the train
\* loader: the assertions, the clamp of the batch size, the loader
NNTrainerFit ==
    /\ tr_class = "NNTrainer"
    /\ Len(tr_log) < MaxTrainerCalls
    /\ \E n \in TrainSizes :
         \E e \in {fit_asserts(tr_model, tr_trial, tr_metric)} :
           \E b \in {IF e = "none" THEN fit_batch_size(tr_batch_size, n)
                     ELSE tr_batch_size} :
            /\ tr_batch_size' = b
            /\ tr_batches' = IF e = "none"
                             THEN DataLoader(n, b, fit_drop_last(b, n))
                             ELSE tr_batches
            /\ tr_log' = Append(tr_log,
                                [op |-> "fit", n |-> n, kw |-> None,
                                 error |-> e,
                                 before |-> tr_batch_size, after |-> b])
    /\ UNCHANGED <<tr_class, tr_model, tr_trial, tr_metric, tr_ret>>
    /\ UNCHANGED tr_others

\* TorchCustomModel.fit(dataset, lr, batch_size, ...): its train loader
ModelCreateTrainObjects ==
    /\ tr_class = "TorchCustomModel"
    /\ Len(tr_log) < MaxTrainerCalls
    /\ \E n \in TrainSizes, batch_size \in BatchSizes :
          /\ tr_batches' = create_train_objects(n, batch_size)
          /\ tr_log' = Append(tr_log,
                              [op |-> "fit", n |-> n,
                               kw |-> Some(batch_size),
                               error |-> "none",
                               before |-> 0, after |-> 0])
    /\ UNCHANGED <<tr_class, tr_model, tr_trial, tr_metric, tr_batch_size,
                   tr_ret>>
    /\ UNCHANGED tr_others

\* NNTrainer.update_trainer(**kwargs): the assertion on the model, then
\* the assignments of lines 403-407
UpdateTrainer ==
    /\ tr_class = "NNTrainer"
    /\ Len(tr_log) < MaxTrainerCalls
    /\ \E kwargs \in UpdateInputs :
         \E e \in {update_trainer_asserts(tr_model, kwargs.model)} :
            /\ IF e = "none"
               THEN /\ tr_model' = "Module"
                    /\ tr_batch_size' = IF kwargs.batch_size.some
                                        THEN kwargs.batch_size.val
                                        ELSE tr_batch_size
                    /\ tr_trial' = IF kwargs.trial = "absent" THEN tr_trial
                                   ELSE kwargs.trial = "Trial"
               ELSE UNCHANGED <<tr_model, tr_batch_size, tr_trial>>
            /\ tr_log' = Append(tr_log,
                                [op |-> "update_trainer", n |-> 0,
                                 kw |-> kwargs.batch_size,
                                 error |-> e,
                                 before |-> tr_batch_size,
                                 after |-> tr_batch_size'])
    /\ UNCHANGED <<tr_class, tr_metric, tr_batches, tr_ret>>
    /\ UNCHANGED tr_others

\* trainer.extract_data(dataset)
ExtractData ==
    /\ tr_class \in TrainerClasses
    /\ Len(tr_log) < MaxTrainerCalls
    /\ \E dataset \in ExtractInputs :
          /\ tr_ret' = extract_data(tr_class, dataset)
          /\ tr_log' = Append(tr_log,
                              [op |-> "extract_data", n |-> 0,
                               kw |-> Some(dataset),
                               error |-> tr_ret'.error,
                               before |-> tr_batch_size,
                               after |-> tr_batch_size])
    /\ UNCHANGED <<tr_class, tr_model, tr_trial, tr_metric, tr_batch_size,
                   tr_batches>>
    /\ UNCHANGED tr_others

(***************************************************************************)
(* FeatureSelector                                                         *)
(*                                                                         *)
(* Columns are told apart by a number.  An importance and the threshold    *)
(* are whole numbers of units of 1 / ImpUnits; the importances of a fitted *)
(* forest sum to one, or are all zero when no tree has a split.  Rounding  *)
(* to four decimals (line 128) leaves such values as they are.  A call    *)
(* reads nothing of an earlier one, so that one call is made on each       *)
(* selector.                                                               *)
(***************************************************************************)
FeatureColumns == 1..NFeat

\* the thresholds handed to the constructor, outside of (0, 1] included
ThresholdInputs == (0 - 1)..(ImpUnits + 1)

Distinct(s) == \A i, j \in 1..Len(s) : i # j => s[i] # s[j]

\* model.feature_importances_ for n features
Importances(n) ==
    {imp \in [1..n -> 0..ImpUnits] : SumSeq(imp) \in {0, ImpUnits}}

\* a column list of a dataset: None, or up to len distinct columns
ColumnLists(len) ==
    {None} \cup
    {Some(s) : s \in {c \in UNION {[1..n -> FeatureColumns] : n \in 0..len} :
                          Distinct(c)}}

\* the datasets handed to the selector: the columns of the imputed
\* dataframe with the importance of each, cont_cols and cat_cols
FsDatasets ==
    {d \in [features : {[i \in 1..n |-> i] : n \in FeatureColumns},
            imp : UNION {Importances(n) : n \in FeatureColumns},
            cont_cols : ColumnLists(2),
            cat_cols : ColumnLists(1)] :
        Len(d.imp) = Len(d.features)}

\* sort_values('imp', ascending=False), line 113: the orders of the rows
\* that put the importances in descending order; rows of equal importance
\* come in an order the sort does not promise
sort_values(imp) ==
    {p \in [1..Len(imp) -> 1..Len(imp)] :
        /\ Distinct(p)
        /\ \A i \in 1..(Len(imp) - 1) : imp[p[i]] >= imp[p[i + 1]]}

\* A loop that stops before the row that would exceed the threshold.
RECURSIVE status_loop_within(_, _, _, _)
status_loop_within(imps, thresh, cumulative_imp, status_list) ==
    IF Len(status_list) = Len(imps) THEN status_list
    ELSE LET c == cumulative_imp + imps[Len(status_list) + 1]
         IN  IF c > thresh THEN status_list
             ELSE status_loop_within(imps, thresh, c,
                                     Append(status_list, "selected"))

\* lines 118-122: add the row's importance, mark the row selected, stop
\* once the sum exceeds the threshold
RECURSIVE status_loop(_, _, _, _)
status_loop(imps, thresh, cumulative_imp, status_list) ==
    IF Len(status_list) = Len(imps) THEN status_list
    ELSE LET c == cumulative_imp + imps[Len(status_list) + 1]
         IN  IF c > thresh THEN Append(status_list, "selected")
             ELSE status_loop(imps, thresh, c,
                              Append(status_list, "selected"))

\* lines 116-125: the status column of the sorted table
status_column(imps, thresh) ==
    LET status_list == status_loop(imps, thresh, 0, <<>>)
    IN  status_list
            \o [k \in 1..(Len(imps) - Len(status_list)) |-> "rejected"]

\* get_features_importance, lines 110-130, with the order p of the sort
get_features_importance(dataset, thresh, p) ==
    LET imps == [k \in 1..Len(p) |-> dataset.imp[p[k]]]
        status == status_column(imps, thresh)
    IN  [k \in 1..Len(p) |->
            [features |-> dataset.features[p[k]],
             imp |-> imps[k],
             status |-> status[k]]]

\* line 62
selected_features(fi_table) ==
    {fi_table[k].features :
        k \in {h \in 1..Len(fi_table) : fi_table[h].status = "selected"}}

\* lines 65-73: one of the two column lists
preserved_cols(cols, selected) ==
    IF cols.some
    THEN Some(SelectSeq(cols.val, LAMBDA c : c \in selected))
    ELSE None

\* FeatureSelector.__init__, lines 38-39
feature_selector_init(importance_threshold) ==
    IF ~(0 < importance_threshold /\ importance_threshold <= ImpUnits)
    THEN "ValueError" ELSE "none"

NoDataset ==
    [features |-> <<>>, imp |-> <<>>, cont_cols |-> None, cat_cols |-> None]

NoColumns == [cont_cols |-> None, cat_cols |-> None]

FsInit ==
    /\ fs_pc = "new"
    /\ fs_thresh = 0
    /\ fs_dataset = NoDataset
    /\ fs_table = <<>>
    /\ fs_ret = NoColumns

FsIdle ==
    /\ fs_pc = "new"
    /\ fs_thresh = 0
    /\ fs_dataset = NoDataset
    /\ fs_table = <<>>
    /\ fs_ret = NoColumns

\* FeatureSelector(importance_threshold)
FeatureSelectorInit ==
    /\ fs_pc = "new"
    /\ \E importance_threshold \in ThresholdInputs :
          IF feature_selector_init(importance_threshold) = "ValueError"
          THEN /\ fs_pc' = "raised"
               /\ fs_thresh' = importance_threshold
          ELSE /\ fs_pc' = "constructed"
               /\ fs_thresh' = importance_threshold
    /\ UNCHANGED <<fs_dataset, fs_table, fs_ret>>
    /\ UNCHANGED fs_others

\* selector.get_features_importance(dataset)
GetFeaturesImportance ==
    /\ fs_pc = "constructed"
    /\ \E dataset \in FsDatasets :
         \E p \in sort_values(dataset.imp) :
            /\ fs_dataset' = dataset
            /\ fs_table' = get_features_importance(dataset, fs_thresh, p)
            /\ fs_ret' = NoColumns
    /\ fs_pc' = "table"
    /\ UNCHANGED fs_thresh
    /\ UNCHANGED fs_others

\* selector(dataset)
FeatureSelectorCall ==
    /\ fs_pc = "constructed"
    /\ \E dataset \in FsDatasets :
         \E p \in sort_values(dataset.imp) :
           \E fi_table \in {get_features_importance(dataset, fs_thresh, p)} :
            /\ fs_dataset' = dataset
            /\ fs_table' = fi_table
            /\ fs_ret' =
                  [cont_cols |-> preserved_cols(dataset.cont_cols,
                                                selected_features(fi_table)),
                   cat_cols |-> preserved_cols(dataset.cat_cols,
                                               selected_features(fi_table))]
    /\ fs_pc' = "called"
    /\ UNCHANGED fs_thresh
    /\ UNCHANGED fs_others

(***************************************************************************)
(* Specifications                                                          *)
(***************************************************************************)
InitDataset ==
    DsInit /\ SmIdle /\ EvIdle /\ FitIdle /\ IrsIdle /\ SsIdle /\ CtIdle
    /\ PdIdle /\ RcIdle /\ SpIdle /\ TrIdle /\ FsIdle

NextDataset == UpdateMasks

SpecDataset == InitDataset /\ [][NextDataset]_vars

InitSampler ==
    SmInit /\ DsIdle /\ EvIdle /\ FitIdle /\ IrsIdle /\ SsIdle /\ CtIdle
    /\ PdIdle /\ RcIdle /\ SpIdle /\ TrIdle /\ FsIdle

NextSampler == SamplerOuter \/ SamplerInner

SpecSampler == InitSampler /\ [][NextSampler]_vars

InitEval ==
    EvInit /\ DsIdle /\ SmIdle /\ FitIdle /\ IrsIdle /\ SsIdle /\ CtIdle
    /\ PdIdle /\ RcIdle /\ SpIdle /\ TrIdle /\ FsIdle

NextEval ==
    \/ EvStart \/ EvTune \/ EvBuild \/ EvFit \/ EvPredict
    \/ EvScore \/ EvPersist \/ EvReturn

SpecEval == InitEval /\ [][NextEval]_vars

InitFit ==
    FitInit /\ DsIdle /\ SmIdle /\ EvIdle /\ IrsIdle /\ SsIdle /\ CtIdle
    /\ PdIdle /\ RcIdle /\ SpIdle /\ TrIdle /\ FsIdle

NextFit ==
    \/ TrainerTrain \/ TrainerEvaluate
    \/ ModelTrainStep \/ ModelValidStep \/ ModelFinalize

SpecFit == InitFit /\ [][NextFit]_vars

InitIrs ==
    IrsInit /\ DsIdle /\ SmIdle /\ EvIdle /\ FitIdle /\ SsIdle /\ CtIdle
    /\ PdIdle /\ RcIdle /\ SpIdle /\ TrIdle /\ FsIdle

NextIrs == IrsDispatch \/ Subprocess \/ IrsGather

SpecIrs == InitIrs /\ [][NextIrs]_vars

InitSample ==
    SsInit /\ DsIdle /\ SmIdle /\ EvIdle /\ FitIdle /\ IrsIdle /\ CtIdle
    /\ PdIdle /\ RcIdle /\ SpIdle /\ TrIdle /\ FsIdle

NextSample == SplitTrainTest

SpecSample == InitSample /\ [][NextSample]_vars

InitConstruct ==
    CtInit /\ DsIdle /\ SmIdle /\ EvIdle /\ FitIdle /\ IrsIdle /\ SsIdle
    /\ PdIdle /\ RcIdle /\ SpIdle /\ TrIdle /\ FsIdle

NextConstruct == CustomDatasetInit \/ CtUpdateMasks \/ CtGetItem

SpecConstruct == InitConstruct /\ [][NextConstruct]_vars

InitPredict ==
    PdInit /\ DsIdle /\ SmIdle /\ EvIdle /\ FitIdle /\ IrsIdle /\ SsIdle
    /\ CtIdle /\ RcIdle /\ SpIdle /\ TrIdle /\ FsIdle

NextPredict == ExecuteTrainStep \/ ModelPredict \/ TrainerPredict

SpecPredict == InitPredict /\ [][NextPredict]_vars

InitRecordings ==
    RcInit /\ DsIdle /\ SmIdle /\ EvIdle /\ FitIdle /\ IrsIdle /\ SsIdle
    /\ CtIdle /\ PdIdle /\ SpIdle /\ TrIdle /\ FsIdle

NextRecordings == EvaluatorInit \/ EvaluatorRun

SpecRecordings == InitRecordings /\ [][NextRecordings]_vars

InitSubprocess ==
    SpInit /\ DsIdle /\ SmIdle /\ EvIdle /\ FitIdle /\ IrsIdle /\ SsIdle
    /\ CtIdle /\ PdIdle /\ RcIdle /\ TrIdle /\ FsIdle

NextSubprocess == DefineSubprocess \/ InnerRandomSubsampling

SpecSubprocess == InitSubprocess /\ [][NextSubprocess]_vars

InitTrainer ==
    TrInit /\ DsIdle /\ SmIdle /\ EvIdle /\ FitIdle /\ IrsIdle /\ SsIdle
    /\ CtIdle /\ PdIdle /\ RcIdle /\ SpIdle /\ FsIdle

NextTrainer ==
    NNTrainerFit \/ ModelCreateTrainObjects \/ UpdateTrainer \/ ExtractData

SpecTrainer == InitTrainer /\ [][NextTrainer]_vars

InitSelector ==
    FsInit /\ DsIdle /\ SmIdle /\ EvIdle /\ FitIdle /\ IrsIdle /\ SsIdle
    /\ CtIdle /\ PdIdle /\ RcIdle /\ SpIdle /\ TrIdle

NextSelector ==
    FeatureSelectorInit \/ GetFeaturesImportance \/ FeatureSelectorCall

SpecSelector == InitSelector /\ [][NextSelector]_vars

(***************************************************************************)
(* Claims about CustomDataset, checked under SpecDataset                   *)
(***************************************************************************)
\* the row positions 0..n-1 a mask selects (a negative position counts from
\* the end, as iloc reads it)
RowsOf(mask) ==
    {(IF mask[i] < 0 THEN mask[i] + NRows ELSE mask[i]) : i \in 1..Len(mask)}

\* how often a row position is selected by a mask
Times(mask, r) ==
    Cardinality({i \in 1..Len(mask) :
                    (IF mask[i] < 0 THEN mask[i] + NRows ELSE mask[i]) = r})

\* sum of f over the rows a mask selects that have the continuous value
RefCount(mask) ==
    SumSeq([r \in 1..NRows |->
        IF IsNaN(original_data[r].cont) THEN 0 ELSE Times(mask, r - 1)])

RefSum(mask) ==
    SumSeq([r \in 1..NRows |->
        IF IsNaN(original_data[r].cont) THEN 0
        ELSE Times(mask, r - 1) * original_data[r].cont[1]])

RefSumSq(mask) ==
    SumSeq([r \in 1..NRows |->
        IF IsNaN(original_data[r].cont) THEN 0
        ELSE Times(mask, r - 1) * original_data[r].cont[1] * original_data[r].cont[1]])

RefMean(mask) == Rat(RefSum(mask), RefCount(mask))

RefStd(mask) ==
    IF RefCount(mask) < 2 THEN NaN
    ELSE Rat(RefCount(mask) * RefSumSq(mask) - RefSum(mask) * RefSum(mask),
             RefCount(mask) * (RefCount(mask) - 1))

RefCatCount(mask, c) ==
    SumSeq([r \in 1..NRows |->
        IF original_data[r].cat = c THEN Times(mask, r - 1) ELSE 0])

\* c is the first category, in category order, of highest count among the
\* rows the mask selects
RefIsMode(mask, c) ==
    \E i \in 1..Len(cat_categories) :
        /\ cat_categories[i] = c
        /\ RefCatCount(mask, c) > 0
        /\ \A j \in 1..Len(cat_categories) :
              /\ RefCatCount(mask, cat_categories[j]) <= RefCatCount(mask, c)
              /\ (j < i => RefCatCount(mask, cat_categories[j]) < RefCatCount(mask, c))

\* C1: once an update_masks call has returned, the mean, the standard
\* deviation and the mode handed to the setters are those of the rows of the
\* current train mask alone, and every exposed feature is imputed,
\* normalized and encoded with exactly these statistics.  (A call that
\* raises leaves the new masks beside the previous features: see C4.)
C1_StatsFromTrainRowsOnly ==
    ~ds_raised =>
        /\ used_stats.mu = RefMean(train_mask)
        /\ used_stats.std = RefStd(train_mask)
        /\ RefIsMode(train_mask, used_stats.modes)
        /\ \A i \in 1..NRows :
              /\ x_cont[i] = preprocess_continuous(original_data[i].cont,
                                                   RefMean(train_mask), RefStd(train_mask))
              /\ x_cat[i] = preprocess_categoricals(original_data[i].cat,
                                                    used_stats.modes, encodings)

\* C1 witness: a call returned with a train mask that leaves rows out, a
\* test row among them; the standard deviation is defined and the mean in
\* use differs from the mean of the whole frame.
C1_Witness ==
    /\ ~ds_raised
    /\ RowsOf(train_mask) # 0..(NRows - 1)
    /\ test_mask # <<>>
    /\ RowsOf(test_mask) \cap RowsOf(train_mask) = {}
    /\ ~IsNaN(used_stats.std)
    /\ used_stats.mu # Mean(original_data)

\* a mask holds a position outside 0..n-1
OutOfRange(mask) == \E i \in 1..Len(mask) : mask[i] < 0 \/ mask[i] >= NRows

\* the masks of a call are inadmissible: a position out of range, or a row
\* both in the train and in the test mask
MasksInvalid(tr, te, va) ==
    \/ OutOfRange(tr) \/ OutOfRange(te) \/ OutOfRange(va.val)
    \/ \E i \in 1..Len(tr), j \in 1..Len(te) : tr[i] = te[j]

\* C4: a call whose masks hold an out-of-range position, or share a row
\* between train and test, is rejected: the dataset never holds such masks
\* as the result of a call that returned.
C4_InvalidMasksRejected ==
    MasksInvalid(train_mask, test_mask, valid_mask) => ds_raised

\* the derived features a frame has for a train mask, from the frame and
\* the mask alone
DerivedCont(df, mask) ==
    LET st == current_train_stats(df, mask)
    IN  [i \in 1..Len(df) |-> preprocess_continuous(df[i].cont, st.mu, st.std)]

DerivedCat(df, mask) ==
    LET st == current_train_stats(df, mask)
    IN  [i \in 1..Len(df) |->
            preprocess_categoricals(df[i].cat, st.modes, ExtractEncodings(df))]

\* C8: after an update_masks call that returned, the derived features are a
\* function of the original frame and of the train mask of that call alone:
\* nothing of the earlier calls survives, so the same call made twice in a
\* row, or after any other history, leaves identical features.
C8_HistoryIndependent ==
    ~ds_raised =>
        /\ x_cont = DerivedCont(original_data, train_mask)
        /\ x_cat = DerivedCat(original_data, train_mask)
        /\ used_stats = current_train_stats(original_data, train_mask)

\* C8 witness: a call returned and overwrote, with defined values, the
\* features the constructor had derived from the whole frame.
C8_Witness ==
    /\ ~ds_raised
    /\ train_mask # AllRows(original_data)
    /\ \E i \in 1..NRows : ~IsNaN(x_cont[i].num) /\ x_cont[i].num[1] # 0
    /\ x_cont # DerivedCont(original_data, AllRows(original_data))

\* C19: a call of update_masks leaves the encoding table, the id list, the
\* targets, the row count and the original data as they were; it writes
\* the masks and the derived features only.
C19_UpdateMasksFrame ==
    [][/\ encodings' = encodings
       /\ ids' = ids
       /\ ds_y' = ds_y
       /\ ds_n' = ds_n
       /\ original_data' = original_data]_ds_vars

\* C19 witness: a call returned with a train mask whose rows hold fewer
\* categories than the frame, and changed the masks and the categorical
\* features; the table still numbers every category of the frame.
C19_Witness ==
    /\ ~ds_raised
    /\ train_mask # AllRows(original_data)
    /\ test_mask # <<>>
    /\ ExtractEncodings(Iloc(original_data, train_mask)) # encodings
    /\ x_cat # DerivedCat(original_data, AllRows(original_data))
    /\ encodings = ExtractEncodings(original_data)

\* the statistics in use are a mean and a non-zero standard deviation
StatsDefined ==
    /\ ~ds_raised
    /\ ~IsNaN(used_stats.mu)
    /\ ~IsNaN(used_stats.std)
    /\ used_stats.std[1] # 0

\* C25: a row whose continuous value is missing is filled with the mean of
\* the train rows and, normalized with that mean and a non-zero standard
\* deviation of the train rows, is exposed as 0.
C25_MissingIsMeanThenZero ==
    StatsDefined =>
        \A i \in 1..NRows :
            IsNaN(original_data[i].cont) =>
                /\ FillMissingCont(original_data[i].cont, used_stats.mu)
                      = used_stats.mu
                /\ x_cont[i].num = <<0, 1>>

\* C25 witness: a call returned with a non-zero mean and a non-zero
\* standard deviation of the train rows, a row outside the train mask has
\* no continuous value, and a row with a value is exposed as non-zero.
C25_Witness ==
    /\ StatsDefined
    /\ used_stats.mu[1] # 0
    /\ train_mask # AllRows(original_data)
    /\ \E i \in 1..NRows :
          /\ IsNaN(original_data[i].cont)
          /\ (i - 1) \notin RowsOf(train_mask)
          /\ x_cont[i].num = <<0, 1>>
    /\ \E i \in 1..NRows : ~IsNaN(x_cont[i].num) /\ x_cont[i].num[1] # 0

(***************************************************************************)
(* Claims about the Sampler (SpecSampler)                                  *)
(***************************************************************************)
\* the outer dictionaries built so far: the one of the running outer loop
\* and those stored in all_datasets
OuterDicts ==
    (IF DOMAIN outer_dict = {} THEN {} ELSE {outer_dict})
        \cup {all_datasets[i] : i \in DOMAIN all_datasets}

IsPartition(df, train, test) ==
    /\ train \cap test = {}
    /\ train \cup test = df

\* C5: every (train, test) pair returned by split_train_test has disjoint
\* rows whose union is the frame that was split: the learning set for an
\* outer pair, the outer train frame for an inner pair.
C5_SplitIsPartition ==
    \A od \in OuterDicts :
        /\ IsPartition(SampLabels, od.train, od.test)
        /\ \A j \in DOMAIN od.inner :
              IsPartition(od.train, od.inner[j].train, od.inner[j].test)

\* C5 witness: an outer split and an inner split of its train frame, each
\* with rows on both sides
C5_Witness ==
    \E od \in OuterDicts :
        /\ od.train # {} /\ od.test # {}
        /\ \E j \in DOMAIN od.inner :
              od.inner[j].train # {} /\ od.inner[j].test # {}

\* C6: the rows of every inner fold are rows of the train frame of its
\* outer fold, inner train and inner test are disjoint, and no row of the
\* outer test frame is in an inner fold.
C6_InnerWithinOuterTrain ==
    \A od \in OuterDicts :
        \A j \in DOMAIN od.inner :
            /\ od.inner[j].train \cap od.inner[j].test = {}
            /\ (od.inner[j].train \cup od.inner[j].test) \subseteq od.train
            /\ (od.inner[j].train \cup od.inner[j].test) \cap od.test = {}

\* C6 witness: the call returned with two inner folds in an outer fold
\* whose test frame holds rows
C6_Witness ==
    /\ sm_pc = "returned"
    /\ \E i \in DOMAIN all_datasets :
          /\ all_datasets[i].test # {}
          /\ DOMAIN all_datasets[i].inner = 0..1
          /\ all_datasets[i].inner[0].test # {}
          /\ all_datasets[i].inner[1].test # all_datasets[i].inner[0].test

\* C7: the dictionary returned for (k, l) has the keys 0..k-1, and each
\* outer fold has the inner keys 0..l-1, for every k >= 1 and l >= 0.
C7_KOuterLInner ==
    sm_pc = "returned" =>
        /\ DOMAIN all_datasets = 0..(sm_k - 1)
        /\ \A i \in DOMAIN all_datasets :
              DOMAIN all_datasets[i].inner = 0..(sm_l - 1)

(***************************************************************************)
(* Claims about the Evaluator (SpecEval)                                   *)
(***************************************************************************)
RunEnded == ev_pc \in {"returned", "raised"}

Persisted(f) ==
    \E p \in 1..Len(ev_log[f]) : ev_log[f][p] = "generate_file"

\* the fold whose step raised
Failed(f) == ev_pc = "raised" /\ f = ev_fold

\* C2: when the run has ended, every fold has its entry: the folds in
\* which no step raised have been executed and persisted, whatever
\* happened in the folds before them.
C2_FailedFoldDoesNotStopRun ==
    RunEnded => \A f \in 0..(ev_k - 1) : Failed(f) \/ Persisted(f)

RecorderCalls ==
    {"record_hyperparameters", "record_hyperparameters_importance",
     "record_model", "record_predictions", "record_scores", "generate_file"}

\* the calls of a fold's log received by the Recorder
RECURSIVE recorder_calls(_)
recorder_calls(log) ==
    IF log = <<>> THEN <<>>
    ELSE (IF Head(log) \in RecorderCalls THEN <<Head(log)>> ELSE <<>>)
             \o recorder_calls(Tail(log))

\* the order of C3, for a fold scored on m metrics
CanonicalCalls(m) ==
    <<"record_hyperparameters", "record_hyperparameters_importance",
      "record_model", "record_predictions">>
        \o [x \in 1..m |-> "record_scores"] \o <<"generate_file">>

IsPrefix(a, b) ==
    /\ Len(a) <= Len(b)
    /\ \A p \in 1..Len(a) : a[p] = b[p]

\* every occurrence of call in log comes after an occurrence of before
After(log, call, before) ==
    \A p \in 1..Len(log) :
        log[p] = call => \E q \in 1..(p - 1) : log[q] = before

\* C3: in every fold the Recorder's calls follow the fixed order (a prefix
\* of it while the fold runs, the whole of it, ending with the only
\* generate_file, once the fold is over); the model is created after the
\* tuning, record_model comes after fit and record_predictions after
\* predict.
C3_RecorderOrder ==
    \A f \in 0..(ev_k - 1) :
        /\ IsPrefix(recorder_calls(ev_log[f]),
                    CanonicalCalls(evaluation_metrics))
        /\ f < ev_fold =>
              recorder_calls(ev_log[f]) = CanonicalCalls(evaluation_metrics)
        /\ After(ev_log[f], "create_model", "tune")
        /\ After(ev_log[f], "record_model", "fit")
        /\ After(ev_log[f], "record_predictions", "predict")

\* C3 witness: a run of two folds or more, scored on two metrics, returned
C3_Witness ==
    /\ ev_pc = "returned"
    /\ ev_k >= 2
    /\ evaluation_metrics = 2
    /\ \A f \in 0..(ev_k - 1) :
          /\ Persisted(f)
          /\ Len(recorder_calls(ev_log[f])) = 7

\* C10: once nested_cross_valid has returned or raised, the checkpoints
\* directory it created does not exist.
C10_CheckpointsRemoved ==
    RunEnded => ~checkpoints

\* C11: the instance recorded and predicted with in a fold has been fitted
\* in that fold and in no other fold.
C11_FreshModelPerFold ==
    \A u \in ev_used :
        /\ u \in ev_fitted
        /\ \A t \in ev_fitted : t[1] = u[1] => t[2] = u[2]

\* C11 witness: a returned run of three folds, each of which fitted and
\* used an instance
C11_Witness ==
    /\ ev_pc = "returned"
    /\ ev_k = 3
    /\ \A f \in 0..2 : \E u \in ev_used : u[2] = f

(***************************************************************************)
(* Claims about fit (SpecFit)                                              *)
(***************************************************************************)
Stopped == early_stopper.some /\ early_stopper.val.early_stop

\* C9: in a fit with early stopping active, once the early stopper has
\* reported stop the fit is never again about to run a training epoch, and
\* it returns with the best parameters the stopper has seen.
C9_StopEndsTraining ==
    (fit_es /\ Stopped) =>
        /\ fit_pc # "train"
        /\ fit_pc = "returned" => weights = early_stopper.val.best_params

\* C26: a TorchCustomModel.fit on a dataset without validation mask has
\* no early stopper, does not raise, and returns after max_epochs training
\* epochs with the parameters of the last one, no checkpoint touched.
C26_NoValidationRunsAllEpochs ==
    (fit_class \in TorchModels /\ ~fit_es) =>
        /\ early_stopper = None
        /\ ~checkpoint_file
        /\ fit_pc # "raised"
        /\ fit_pc = "returned" =>
              /\ epoch = max_epochs - 1
              /\ weights = max_epochs

(***************************************************************************)
(* Claims about inner_random_subsampling (SpecIrs)                         *)
(***************************************************************************)
\* C12: the fit of every inner split begins on a model that has been
\* fitted on no inner split, whatever worker runs it.
C12_InnerFitsStartUntrained ==
    \A i \in InnerSplits : fit_start[i].some => fit_start[i].val = {}

\* the sum of the scores over the inner splits, taken split by split
RECURSIVE RefScoreSum(_, _)
RefScoreSum(S, sq) ==
    IF S = {} THEN 0
    ELSE LET i == CHOOSE x \in S : TRUE
             v == scores[i].val
         IN  (IF sq THEN v * v ELSE v) + RefScoreSum(S \ {i}, sq)

\* C13: no inner split is evaluated twice; when the call has returned every
\* split 0..l-1 has been evaluated once and the value returned is the mean
\* of the l scores over their standard deviation for l > 1, the score
\* itself for l = 1.
C13_AggregateOfAllScores ==
    /\ \A i \in InnerSplits : runs[i] <= 1
    /\ irs_pc = "returned" =>
          /\ \A i \in InnerSplits : runs[i] = 1 /\ scores[i].some
          /\ irs_result.some
          /\ irs_result.val.mean =
                Rat(RefScoreSum(InnerSplits, FALSE), irs_l)
          /\ irs_result.val.std2 =
                IF irs_l = 1 THEN <<1, 1>>
                ELSE Rat(irs_l * RefScoreSum(InnerSplits, TRUE)
                           - RefScoreSum(InnerSplits, FALSE)
                               * RefScoreSum(InnerSplits, FALSE),
                         irs_l * irs_l)

\* C13 witness: a call over three inner splits with different scores has
\* returned
C13_Witness ==
    /\ irs_pc = "returned"
    /\ irs_l = 3
    /\ \E i, j \in InnerSplits : scores[i].val # scores[j].val
    /\ irs_result.val.std2[1] > 0

(***************************************************************************)
(* Claims about stratified_sample and split_train_test (SpecSample)        *)
(***************************************************************************)
FrameRows == Cardinality(DOMAIN ss_target)

\* the arguments pass the checks of lines 151-154
ValidArguments == ss_has_target /\ ss_n[1] >= 0

\* the rows of the stratum of target value t
StratumOf(t) == {r \in DOMAIN ss_target : ss_target[r] = t}

\* how often row r is in the sample
Occurrences(rows, r) == Cardinality({i \in 1..Len(rows) : rows[i] = r})

\* c is a / b rounded to the nearest integer, a half to the even one
IsRInt(c, a, b) ==
    \/ 2 * Abs(c * b - a) < b
    \/ 2 * Abs(c * b - a) = b /\ c % 2 = 0

\* C14: a sample of a frame stratified on its target values holds no row
\* twice and, from each stratum of size s, exactly rint(n*s/N) rows; a
\* stratum whose rounded count is 0 gives no row and no error; the call
\* fails only when a stratum is asked for more rows than it holds.
C14_StratumCounts ==
    \A k \in 1..Len(ss_out) :
        (ValidArguments /\ ~ss_out[k].quantiles) =>
            IF ss_out[k].raised = "none"
            THEN /\ \A r \in DOMAIN ss_target :
                       Occurrences(ss_out[k].test, r) <= 1
                 /\ \A t \in Range(ss_target) :
                       IsRInt(Cardinality(Range(ss_out[k].test)
                                             \cap StratumOf(t)),
                              ss_out[k].n[1] * Cardinality(StratumOf(t)),
                              ss_out[k].n[2] * FrameRows)
            ELSE \E t \in Range(ss_target), c \in 0..(ss_out[k].n[1] + 1) :
                       /\ IsRInt(c, ss_out[k].n[1] * Cardinality(StratumOf(t)),
                                 ss_out[k].n[2] * FrameRows)
                       /\ c > Cardinality(StratumOf(t))

\* C14 witness: a sample of two rows or more of one stratum, from a frame
\* with another stratum that gave none
C14_Witness ==
    /\ ss_out # <<>>
    /\ ss_out[1].raised = "none"
    /\ \E t, u \in Range(ss_target) :
          /\ Cardinality(Range(ss_out[1].test) \cap StratumOf(t)) >= 2
          /\ Range(ss_out[1].test) \cap StratumOf(u) = {}

\* C15: the number of rows of a sample differs from the number asked for
\* by at most 1.
C15_TotalWithinOne ==
    \A k \in 1..Len(ss_out) :
        ss_out[k].raised = "none" =>
            Abs(ss_out[k].n[2] * Len(ss_out[k].test) - ss_out[k].n[1])
                <= ss_out[k].n[2]

\* C16: with valid arguments the sampling is stratified on quantile buckets
\* exactly when the target has more than 10 distinct values, and then it
\* does not raise.
C16_QuantilesWhenContinuous ==
    \A k \in 1..Len(ss_out) :
        ValidArguments =>
            /\ ss_out[k].quantiles = (Cardinality(Range(ss_target)) > 10)
            /\ ss_out[k].quantiles => ss_out[k].raised = "none"

\* C17: the call raises its usage error, and samples nothing, exactly when
\* n < 0 or the target column is missing; otherwise the count it samples
\* for is int(n * rows) for 0 < n < 1 and n itself for n = 0 and n >= 1.
C17_UsageErrorsAndCount ==
    \A k \in 1..Len(ss_out) :
        IF ~ss_has_target \/ ss_n[1] < 0
        THEN ss_out[k].raised = "Exception" /\ ss_out[k].test = <<>>
        ELSE /\ ss_out[k].raised # "Exception"
             /\ IF 0 < ss_n[1] /\ ss_n[1] < ss_n[2]
                THEN /\ ss_out[k].n[2] = 1
                     /\ ss_out[k].n[1] * ss_n[2] <= ss_n[1] * FrameRows
                     /\ ss_n[1] * FrameRows < (ss_out[k].n[1] + 1) * ss_n[2]
                ELSE ss_out[k].n = ss_n

\* C17 witness: a call with a fraction whose product with the number of
\* rows is no integer has returned rows
C17_Witness ==
    /\ ss_out # <<>>
    /\ ss_out[1].raised = "none"
    /\ 0 < ss_n[1] /\ ss_n[1] < ss_n[2]
    /\ (ss_n[1] * FrameRows) % ss_n[2] # 0
    /\ ss_out[1].test # <<>>

Misconfigured ==
    \/ PARTICIPANT \notin ct_columns
    \/ ~ct_cont_cols.some /\ ~ct_cat_cols.some
    \/ ct_cont_cols.some /\ KeyError(ct_columns, ct_cont_cols.val)
    \/ ct_cat_cols.some /\ KeyError(ct_columns, ct_cat_cols.val)

\* C20: a construction with a column list naming a column the frame lacks,
\* without the participants' ids or without any column list fails in the
\* constructor, before the ids are read, a mask is set or a statistic is
\* computed; no object is left to fail later, and on a
\* constructed object no call fails for a missing column.
C20_FailsAtConstruction ==
    /\ (Misconfigured /\ ct_pc \notin {"idle", "new"}) =>
          /\ ct_pc = "raised"
          /\ ct_error \in {"AssertionError", "KeyError"}
          /\ ct_steps = <<>>
          /\ ct_later = <<>>
    /\ \A i \in 1..Len(ct_later) : ct_later[i].error = "none"

\* C20 witness: the constructor raised for a frame with the ids and the
\* target, a valid list of categorical columns and a continuous column
\* the frame lacks.
C20_Witness ==
    /\ ct_pc = "raised"
    /\ {PARTICIPANT, target, "sex", "age"} \subseteq ct_columns
    /\ ct_cat_cols.some
    /\ ct_cont_cols.some
    /\ KeyError(ct_columns, ct_cont_cols.val)

(***************************************************************************)
(* Claims about predict (SpecPredict)                                      *)
(***************************************************************************)
\* a predict call is made in this step
PredictStep == pd_calls' = pd_calls + 1

\* C21: a call of predict leaves the model's parameters and its train/eval
\* mode, and the masks of the dataset, as they were.
C21_PredictChangesNothing ==
    [][PredictStep =>
          /\ training' = training
          /\ pd_weights' = pd_weights
          /\ pd_train_mask' = pd_train_mask
          /\ pd_test_mask' = pd_test_mask]_pd_vars

\* C27: a predict of a graph model returns one prediction for each index
\* of the mask it was given, in the order of the mask, and one for each
\* index of the test mask when it was given None.
C27_OnePredictionPerMaskIndex ==
    (pd_class \in GraphModels /\ pd_calls > 0) =>
        pd_out = (IF pd_mask.some THEN pd_mask.val ELSE pd_test_mask)

(***************************************************************************)
(* Claims about the recordings directory (SpecRecordings)                  *)
(***************************************************************************)
\* C24: the construction of an evaluator whose name has a recordings
\* directory raises, and constructs nothing; so does every construction
\* that follows a run, under the same name, that got past its sampling.
C24_NameCollisionFailsAtInit ==
    \A j \in 1..Len(rc_log) :
        rc_log[j].op = "__init__" =>
            /\ rc_log[j].existed => rc_log[j].error = "AssertionError"
            /\ (\E i \in 1..(j - 1) :
                   /\ rc_log[i].op = "nested_cross_valid"
                   /\ rc_log[i].sampled
                   /\ rc_log[i].name = rc_log[j].name)
                 => rc_log[j].error = "AssertionError"

\* C24 witness: an evaluator was constructed when its name had no
\* directory, it ran, and a second construction under its name raised.
C24_Witness ==
    \E i, j, k \in 1..Len(rc_log) :
        /\ i < j /\ j < k
        /\ rc_log[i].op = "__init__" /\ rc_log[i].error = "none"
        /\ rc_log[j].op = "nested_cross_valid" /\ rc_log[j].sampled
        /\ ~rc_log[j].existed
        /\ rc_log[k].op = "__init__" /\ rc_log[k].error = "AssertionError"
        /\ rc_log[i].name = rc_log[j].name
        /\ rc_log[j].name = rc_log[k].name

(***************************************************************************)
(* Claims about define_subprocess (SpecSubprocess)                         *)
(***************************************************************************)
\* the positions of the define_subprocess calls before call j
DefinesBefore(j) ==
    {i \in 1..(j - 1) : sp_log[i].op = "define_subprocess"}

\* the datasets of the last define_subprocess call before call j
LatestDatasets(j) ==
    sp_log[CHOOSE i \in DefinesBefore(j) :
               \A h \in DefinesBefore(j) : h <= i].datasets

\* C29: an inner_random_subsampling called before any define_subprocess
\* fails its assertion and dispatches no task; subprocess_defined is true
\* from the first define_subprocess on; a later inner_random_subsampling
\* dispatches one task for each inner split, on the datasets of the latest
\* define_subprocess call.
C29_SubprocessDefinedFirst ==
    /\ sp_defined = (DefinesBefore(Len(sp_log) + 1) # {})
    /\ \A j \in 1..Len(sp_log) :
          sp_log[j].op = "inner_random_subsampling" =>
              IF DefinesBefore(j) = {}
              THEN /\ sp_log[j].error = "AssertionError"
                   /\ sp_log[j].tasks = <<>>
              ELSE /\ sp_log[j].error = "none"
                   /\ sp_log[j].tasks =
                         [k \in 1..sp_log[j].l |-> <<LatestDatasets(j), k - 1>>]

\* C29 witness: a call failed before the first define_subprocess, and a
\* call that followed a second define_subprocess, with other datasets,
\* dispatched two tasks or more.
C29_Witness ==
    /\ Len(sp_log) >= 4
    /\ sp_log[1].op = "inner_random_subsampling"
    /\ sp_log[1].error = "AssertionError"
    /\ sp_log[2].op = "define_subprocess"
    /\ sp_log[3].op = "define_subprocess"
    /\ sp_log[3].datasets # sp_log[2].datasets
    /\ sp_log[4].op = "inner_random_subsampling"
    /\ Len(sp_log[4].tasks) >= 2

(***************************************************************************)
(* Claims about the trainers' batches and extract_data (SpecTrainer)       *)
(***************************************************************************)
LastCall == tr_log[Len(tr_log)]

\* C22: extract_data, of an NNTrainer as of an RFTrainer, on a dataset
\* without categorical columns returns the continuous block, None for the
\* categorical block and the targets, and raises nothing.
C22_ExtractDataWithoutCategorical ==
    (/\ tr_log # <<>>
     /\ LastCall.op = "extract_data"
     /\ ~LastCall.kw.val.X_cat.some) =>
        /\ tr_ret.error = "none"
        /\ tr_ret.x_cont = Some(LastCall.kw.val.X_cont)
        /\ ~tr_ret.x_cat.some
        /\ tr_ret.y = Some(LastCall.kw.val.y)

\* C23: no epoch processes a batch of exactly one row, whatever the size
\* of the train set and the batch size.
C23_NoBatchOfOneRow ==
    \A k \in 1..Len(tr_batches) : tr_batches[k] # 1

\* C28: on an NNTrainer, a fit that gets past its opening assertions
\* leaves batch_size at the minimum of its previous value and the size of
\* the train set, a fit that does not leaves it as it was, so that fits
\* never increase it; the value stays until an update_trainer that is
\* given a batch_size, and that its assertion lets through, replaces it.
C28_BatchSizeOnlyShrinks ==
    tr_class = "NNTrainer" =>
        /\ tr_log # <<>> => tr_batch_size = LastCall.after
        /\ \A j \in 1..Len(tr_log) :
              /\ j > 1 => tr_log[j].before = tr_log[j - 1].after
              /\ tr_log[j].op = "fit" =>
                    /\ tr_log[j].after <= tr_log[j].before
                    /\ tr_log[j].error = "none" =>
                          /\ tr_log[j].after <= tr_log[j].n
                          /\ tr_log[j].after
                                \in {tr_log[j].before, tr_log[j].n}
                    /\ tr_log[j].error # "none" =>
                          tr_log[j].after = tr_log[j].before
              /\ (/\ tr_log[j].op = "update_trainer"
                  /\ tr_log[j].kw.some
                  /\ tr_log[j].error = "none") =>
                    tr_log[j].after = tr_log[j].kw.val
              /\ (\/ tr_log[j].op = "extract_data"
                  \/ /\ tr_log[j].op = "update_trainer"
                     /\ ~tr_log[j].kw.some \/ tr_log[j].error # "none") =>
                    tr_log[j].after = tr_log[j].before

\* C28 witness: a fit on a train set smaller than the batch size lowered
\* it, and the next fit, on a larger train set, kept the lowered value.
C28_Witness ==
    /\ tr_class = "NNTrainer"
    /\ Len(tr_log) >= 2
    /\ tr_log[1].op = "fit"
    /\ tr_log[1].error = "none"
    /\ tr_log[1].n < tr_log[1].before
    /\ tr_log[1].after = tr_log[1].n
    /\ tr_log[2].op = "fit"
    /\ tr_log[2].error = "none"
    /\ tr_log[2].n > tr_log[1].n
    /\ tr_batch_size = tr_log[1].n

(***************************************************************************)
(* Claims about FeatureSelector (SpecSelector)                             *)
(***************************************************************************)
\* number of rows of the table marked selected
NSelected ==
    Cardinality({k \in 1..Len(fs_table) : fs_table[k].status = "selected"})

\* sum of the importances of the first k rows of the table
CumulativeImp(k) == SumSeq([h \in 1..k |-> fs_table[h].imp])

SelectedNames ==
    {fs_table[k].features : k \in 1..NSelected}

\* C30: a threshold outside (0, 1] is refused by the constructor; the
\* table lists every feature once, in descending importance; the rows
\* marked selected are the shortest prefix whose cumulative importance
\* exceeds the threshold, or all rows when none does, and at least one;
\* every other row is marked rejected; the cont_cols and cat_cols returned
\* are those of the dataset restricted, in their order, to the selected
\* features, and None where the dataset has none.
C30_ShortestPrefixOverThreshold ==
    /\ fs_pc = "raised" <=>
          (fs_pc # "new" /\ ~(0 < fs_thresh /\ fs_thresh <= ImpUnits))
    /\ fs_pc \in {"table", "called"} =>
          /\ Len(fs_table) = Len(fs_dataset.features)
          /\ \A c \in 1..Len(fs_dataset.features) :
                Cardinality({k \in 1..Len(fs_table) :
                                /\ fs_table[k].features = fs_dataset.features[c]
                                /\ fs_table[k].imp = fs_dataset.imp[c]}) = 1
          /\ \A k \in 1..(Len(fs_table) - 1) :
                fs_table[k].imp >= fs_table[k + 1].imp
          /\ NSelected >= 1
          /\ \A k \in 1..Len(fs_table) :
                fs_table[k].status =
                    (IF k <= NSelected THEN "selected" ELSE "rejected")
          /\ CumulativeImp(NSelected - 1) <= fs_thresh
          /\ CumulativeImp(NSelected) > fs_thresh \/ NSelected = Len(fs_table)
    /\ fs_pc = "called" =>
          /\ fs_ret.cont_cols =
                (IF fs_dataset.cont_cols.some
                 THEN Some(SelectSeq(fs_dataset.cont_cols.val,
                                     LAMBDA c : c \in SelectedNames))
                 ELSE None)
          /\ fs_ret.cat_cols =
                (IF fs_dataset.cat_cols.some
                 THEN Some(SelectSeq(fs_dataset.cat_cols.val,
                                     LAMBDA c : c \in SelectedNames))
                 ELSE None)

\* C30 witness: a call on three features selected two of them, the first
\* alone not exceeding the threshold, and returned one of two continuous
\* columns and no categorical list.
C30_Witness ==
    /\ fs_pc = "called"
    /\ Len(fs_table) = 3
    /\ NSelected = 2
    /\ fs_table[1].features # 1
    /\ fs_dataset.cont_cols.some
    /\ Len(fs_dataset.cont_cols.val) = 2
    /\ fs_ret.cont_cols.some
    /\ Len(fs_ret.cont_cols.val) = 1
    /\ ~fs_dataset.cat_cols.some
    /\ ~fs_ret.cat_cols.some

====
